---- MODULE Spec2Model ----
(***************************************************************************)
(* g4emi configuration <-> Geant4 macro codec.                             *)
(*                                                                         *)
(* Text is modelled as a sequence of atoms: an atom is a run of            *)
(* non-blank characters, a number, or one blank (SP), so that str.split,   *)
(* str.strip and str.replace(" ", "") are computed, not assumed.  A line   *)
(* of a macro file is such a sequence and a file is the sequence of lines  *)
(* str.splitlines() yields for its content (terminators are not part of   *)
(* a line).                                                                *)
(*                                                                         *)
(* A length is an integer number of ticks, one tick being 10^-TickDigits   *)
(* of the unit the number is written in; the "g" and ".3f" conversions     *)
(* round as the code's format specifications do.                           *)
(***************************************************************************)
EXTENDS Integers, Sequences, FiniteSets, TLC

VARIABLES
    pc,         \* position of the modelled caller
    template,   \* hierarchical configuration handed to ConfigIO
    flags,      \* include_output / include_run_initialize of the last write
    file,       \* content of the macro file: NoFile or a sequence of lines
    imported,   \* what from_macro returned: [err, config]
    commands,   \* what macro_commands returned last: [err, cmds]
    flat,       \* flat SimConfig object (src/config/SimConfig.py)
    lens,       \* what the primary lens reference resolves to right now
    before,     \* content of the macro file when the last patch began
    outcome,    \* what apply_geometry_to_macro did last
    answer      \* what the last query or construction returned

vars == <<pc, template, flags, file, imported, commands, flat, lens, before, outcome, answer>>

----------------------------------------------------------------------------
(* Text atoms *)

A(s) == [s |-> s, n |-> 0]
Num(n) == [s |-> "0", n |-> n]
SP == A(" ")
HASH == A("#")
QUOTE == A("'")

Txt(s) == <<A(s)>>

IsNum(a) == a.s = "0"

RECURSIVE split_acc(_, _, _)
split_acc(text, cur, acc) ==
    IF text = <<>>
    THEN (IF cur = <<>> THEN acc ELSE Append(acc, cur))
    ELSE IF Head(text) = SP
         THEN split_acc(Tail(text), <<>>, IF cur = <<>> THEN acc ELSE Append(acc, cur))
         ELSE split_acc(Tail(text), Append(cur, Head(text)), acc)

\* str.split(): the maximal runs of non-blank atoms.
split(text) == split_acc(text, <<>>, <<>>)

\* shlex.split(line, comments=False, posix=True) on text with blanks and
\* quotes: a quote opens or closes a quoted stretch, whose blanks stay in the
\* token; a quote left open raises ValueError.  [err, tokens]
RECURSIVE shlex_acc(_, _, _, _, _)
shlex_acc(text, cur, started, open, acc) ==
    IF text = <<>>
    THEN IF open THEN [err |-> "ValueError", tokens |-> <<>>]
         ELSE [err |-> "", tokens |-> IF started THEN Append(acc, cur) ELSE acc]
    ELSE IF Head(text) = QUOTE
         THEN shlex_acc(Tail(text), cur, TRUE, ~open, acc)
         ELSE IF Head(text) = SP /\ ~open
         THEN shlex_acc(Tail(text), <<>>, FALSE, FALSE,
                        IF started THEN Append(acc, cur) ELSE acc)
         ELSE shlex_acc(Tail(text), Append(cur, Head(text)), TRUE, open, acc)

shlex_split(text) == shlex_acc(text, <<>>, FALSE, FALSE, <<>>)

RECURSIVE lstrip(_)
lstrip(text) ==
    IF text # <<>> /\ Head(text) = SP THEN lstrip(Tail(text)) ELSE text

RECURSIVE rstrip(_)
rstrip(text) ==
    IF text # <<>> /\ text[Len(text)] = SP
    THEN rstrip(SubSeq(text, 1, Len(text) - 1))
    ELSE text

strip(text) == rstrip(lstrip(text))

\* str.replace(" ", "")
remove_spaces(text) == SelectSeq(text, LAMBDA a : a # SP)

\* str.lower() on the atoms the model uses.
LowerS(s) ==
    CASE s = "HDF5" -> "hdf5"
      [] s = "H5" -> "h5"
      [] s = "Circle" -> "circle"
      [] s = "MM" -> "mm"
      [] s = "CM" -> "cm"
      [] OTHER -> s

lower(text) == [i \in 1..Len(text) |-> IF IsNum(text[i]) THEN text[i] ELSE A(LowerS(text[i].s))]

startswith_hash(text) == text # <<>> /\ Head(text) = HASH

RECURSIVE Pow10(_)
Pow10(k) == IF k = 0 THEN 1 ELSE 10 * Pow10(k - 1)

\* Ticks in one unit of length.
TickDigits == 5
Ticks == Pow10(TickDigits)

Abs(v) == IF v < 0 THEN -v ELSE v

\* Round a >= 0 to a multiple of q, ties to even.
RoundHalfEven(a, q) ==
    LET lo == (a \div q) * q
        r == a - lo
    IN  IF 2 * r < q THEN lo
        ELSE IF 2 * r > q THEN lo + q
        ELSE IF (lo \div q) % 2 = 0 THEN lo ELSE lo + q

\* Significant digits of the "g" presentation type.
SigDigits == 6

RECURSIVE Quantum(_)
Quantum(a) == IF a < Pow10(SigDigits) THEN 1 ELSE 10 * Quantum(a \div 10)

\* The number f"{v:g}" prints, as float() reads it back.
format_g(v) ==
    LET a == Abs(v)
        r == RoundHalfEven(a, Quantum(a))
    IN  IF v < 0 THEN -r ELSE r

\* Decimals of the ".3f" presentation type.
FixedDecimals == 3

\* The number f"{v:.3f}" prints.
format_3f(v) ==
    LET a == Abs(v)
        r == RoundHalfEven(a, Pow10(TickDigits - FixedDecimals))
    IN  IF v < 0 THEN -r ELSE r

\* f"{path} {text}"
CmdText(path, text) == <<A(path), SP>> \o text

\* f"{path} {value} {unit}" with an already formatted value
CmdLen(path, value, unit) == <<A(path), SP, Num(value), SP, A(unit)>>

None == <<>>
Some(v) == <<v>>
IsNone(o) == o = <<>>
Val(o) == o[1]

NoFile == [exists |-> FALSE, lines |-> <<>>]
FileOf(ls) == [exists |-> TRUE, lines |-> ls]

\* Path.write_text("\n".join(lines) + "\n") followed by read_text().splitlines()
write_text(ls) == FileOf(IF ls = <<>> THEN << <<>> >> ELSE ls)

----------------------------------------------------------------------------
(* src/config/ConfigIO.py: hierarchical configuration -> macro commands *)

DEFAULT_OUTPUT_FILENAME_BASE == Txt("photon_optical_interface_hits")

\* DEFAULT_OPTICAL_INTERFACE_THICKNESS_MM = 0.1
DEFAULT_OPTICAL_INTERFACE_THICKNESS_MM == Ticks \div 10

\* Absolute paths begin with the root atom.
ROOT == A("/wd/")

\* utilsConfig.resolve_path(path, base_directory=working directory)
resolve_path(path) ==
    IF path # <<>> /\ Head(path) = ROOT THEN path ELSE <<ROOT>> \o path

resolve_data_directory(config) ==
    resolve_path(config.metadata.output_info.data_directory)

normalize_output_format_token(value) ==
    LET token == lower(strip(value))
    IN  IF token = Txt("h5") THEN Txt("hdf5") ELSE token

output_commands(config) ==
    << CmdText("/output/format",
               normalize_output_format_token(config.metadata.output_info.output_format)),
       CmdText("/output/path", resolve_data_directory(config)),
       CmdText("/output/filename", DEFAULT_OUTPUT_FILENAME_BASE),
       CmdText("/output/runname", config.metadata.simulation_run_id) >>

Min(a, b) == IF a <= b THEN a ELSE b

RULE_MIN == <<A("min(entranceDiameter,"), A("sensorMaxWidth)")>>
RULE_ENTRANCE == Txt("entranceDiameter")
RULE_SENSOR == Txt("sensorMaxWidth")

\* Resolver that answers the entrance diameter for a rule it does not know.
resolve_sensitive_detector_diameter_mm_falls_back(config) ==
    LET geometry == config.optical.geometry
        rule == remove_spaces(config.optical.sensitive_detector_config.diameter_rule)
    IN  IF rule = RULE_MIN
        THEN [err |-> "", mm |-> Min(geometry.entrance_diameter, geometry.sensor_max_width)]
        ELSE IF rule = RULE_SENSOR
        THEN [err |-> "", mm |-> geometry.sensor_max_width]
        ELSE [err |-> "", mm |-> geometry.entrance_diameter]

\* Resolver that compares the rule text as written, blanks included.
resolve_sensitive_detector_diameter_mm_keeps_spaces(config) ==
    LET geometry == config.optical.geometry
        rule == config.optical.sensitive_detector_config.diameter_rule
    IN  IF rule = RULE_MIN
        THEN [err |-> "", mm |-> Min(geometry.entrance_diameter, geometry.sensor_max_width)]
        ELSE IF rule = RULE_ENTRANCE
        THEN [err |-> "", mm |-> geometry.entrance_diameter]
        ELSE IF rule = RULE_SENSOR
        THEN [err |-> "", mm |-> geometry.sensor_max_width]
        ELSE [err |-> "ValueError", mm |-> 0]

\* [err, mm]: the diameter the rule names, or the ValueError of an
\* unsupported rule.
resolve_sensitive_detector_diameter_mm(config) ==
    LET geometry == config.optical.geometry
        rule == remove_spaces(config.optical.sensitive_detector_config.diameter_rule)
    IN  IF rule = RULE_MIN
        THEN [err |-> "", mm |-> Min(geometry.entrance_diameter, geometry.sensor_max_width)]
        ELSE IF rule = RULE_ENTRANCE
        THEN [err |-> "", mm |-> geometry.entrance_diameter]
        ELSE IF rule = RULE_SENSOR
        THEN [err |-> "", mm |-> geometry.sensor_max_width]
        ELSE [err |-> "ValueError", mm |-> 0]

scintillator_lines(scint) ==
    << CmdText("/scintillator/geom/material", scint.properties.name),
       CmdLen("/scintillator/geom/scintX", format_g(scint.dimension_mm.x_mm), "mm"),
       CmdLen("/scintillator/geom/scintY", format_g(scint.dimension_mm.y_mm), "mm"),
       CmdLen("/scintillator/geom/scintZ", format_g(scint.dimension_mm.z_mm), "mm"),
       CmdLen("/scintillator/geom/posX", format_g(scint.position_mm.x_mm), "mm"),
       CmdLen("/scintillator/geom/posY", format_g(scint.position_mm.y_mm), "mm"),
       CmdLen("/scintillator/geom/posZ", format_g(scint.position_mm.z_mm), "mm") >>

\* optical_interface_lines sizing the interface by the smaller of entrance
\* diameter and sensor width.
optical_interface_lines_sized_by_min(optical) ==
    LET detector == optical.sensitive_detector_config
        d == Min(optical.geometry.entrance_diameter, optical.geometry.sensor_max_width)
    IN  << CmdLen("/optical_interface/geom/sizeX", format_g(d), "mm"),
           CmdLen("/optical_interface/geom/sizeY", format_g(d), "mm"),
           CmdLen("/optical_interface/geom/thickness",
                  format_g(DEFAULT_OPTICAL_INTERFACE_THICKNESS_MM), "mm"),
           CmdLen("/optical_interface/geom/posX", format_g(detector.position_mm.x_mm), "mm"),
           CmdLen("/optical_interface/geom/posY", format_g(detector.position_mm.y_mm), "mm"),
           CmdLen("/optical_interface/geom/posZ", format_g(detector.position_mm.z_mm), "mm") >>

optical_interface_lines(optical) ==
    LET detector == optical.sensitive_detector_config
    IN  << CmdLen("/optical_interface/geom/sizeX", format_g(optical.geometry.entrance_diameter), "mm"),
           CmdLen("/optical_interface/geom/sizeY", format_g(optical.geometry.entrance_diameter), "mm"),
           CmdLen("/optical_interface/geom/thickness",
                  format_g(DEFAULT_OPTICAL_INTERFACE_THICKNESS_MM), "mm"),
           CmdLen("/optical_interface/geom/posX", format_g(detector.position_mm.x_mm), "mm"),
           CmdLen("/optical_interface/geom/posY", format_g(detector.position_mm.y_mm), "mm"),
           CmdLen("/optical_interface/geom/posZ", format_g(detector.position_mm.z_mm), "mm") >>

\* 0.5 * d; the diameters of the model are even numbers of ticks whenever the
\* half is below the rounding quantum of format_g.
Half(d) == d \div 2

\* geometry_commands with the aperture line appended after the interface
\* lines instead of before them.
geometry_commands_aperture_last(config) ==
    LET detector == config.optical.sensitive_detector_config
        base == scintillator_lines(config.scintillator)
        circle == lower(strip(detector.shape)) = Txt("circle")
        d == resolve_sensitive_detector_diameter_mm(config)
    IN  IF circle /\ d.err # ""
        THEN [err |-> d.err, cmds |-> <<>>]
        ELSE [err |-> "",
              cmds |-> base \o optical_interface_lines(config.optical)
                       \o (IF circle
                           THEN <<CmdLen("/scintillator/geom/apertureRadius",
                                         format_g(Half(d.mm)), "mm")>>
                           ELSE <<>>)]

\* [err, cmds]
geometry_commands(config) ==
    LET detector == config.optical.sensitive_detector_config
        base == scintillator_lines(config.scintillator)
        circle == lower(strip(detector.shape)) = Txt("circle")
        d == resolve_sensitive_detector_diameter_mm(config)
    IN  IF circle /\ d.err # ""
        THEN [err |-> d.err, cmds |-> <<>>]
        ELSE [err |-> "",
              cmds |-> (IF circle
                        THEN Append(base, CmdLen("/scintillator/geom/apertureRadius",
                                                 format_g(Half(d.mm)), "mm"))
                        ELSE base)
                       \o optical_interface_lines(config.optical)]

\* [err, cmds]
macro_commands(config, include_output, include_run_initialize) ==
    LET g == geometry_commands(config)
    IN  IF g.err # ""
        THEN [err |-> g.err, cmds |-> <<>>]
        ELSE [err |-> "",
              cmds |-> (IF include_output THEN output_commands(config) ELSE <<>>)
                       \o g.cmds
                       \o (IF include_run_initialize THEN <<Txt("/run/initialize")>> ELSE <<>>)]

\* write_macro that encodes with the default flags whatever it is given.
write_macro_default_flags(config, f, include_output, include_run_initialize) ==
    LET m == macro_commands(config, TRUE, TRUE)
    IN  IF m.err # ""
        THEN [err |-> m.err, file |-> f]
        ELSE [err |-> "", file |-> write_text(m.cmds)]

\* [err, file]: the file after write_macro(config, macro_path, ...,
\* create_output_directories=False, overwrite=True)
write_macro(config, f, include_output, include_run_initialize) ==
    LET m == macro_commands(config, include_output, include_run_initialize)
    IN  IF m.err # ""
        THEN [err |-> m.err, file |-> f]
        ELSE [err |-> "", file |-> write_text(m.cmds)]

----------------------------------------------------------------------------
(* src/config/ConfigIO.py: macro file -> hierarchical configuration *)

\* _LENGTH_UNIT_TO_MM as a fraction <<numerator, denominator>>; <<0, 0>> for
\* a unit the table does not hold.
LENGTH_UNIT_TO_MM(u) ==
    CASE u \in {"nm", "nanometer", "nanometers"} -> <<1, 1000000>>
      [] u \in {"um", "micrometer", "micrometers"} -> <<1, 1000>>
      [] u \in {"mm", "millimeter", "millimeters"} -> <<1, 1>>
      [] u \in {"cm", "centimeter", "centimeters"} -> <<10, 1>>
      [] u \in {"m", "meter", "meters"} -> <<1000, 1>>
      [] OTHER -> <<0, 0>>

\* length_to_mm that takes every value as millimetres, whatever the unit.
length_to_mm_unitless(value, unit) == [err |-> "", mm |-> value]

\* [err, mm]; unit is a token
length_to_mm(value, unit) ==
    LET u == lower(strip(unit))
        factor == IF Len(u) = 1 /\ ~IsNum(u[1]) THEN LENGTH_UNIT_TO_MM(u[1].s) ELSE <<0, 0>>
    IN  IF factor = <<0, 0>>
        THEN [err |-> "ValueError", mm |-> 0]
        ELSE [err |-> "", mm |-> (value * factor[1]) \div factor[2]]

\* float(token) succeeds on a token that is one number
IsFloat(token) == Len(token) = 1 /\ IsNum(token[1])

\* [err, mm]
parse_length_tokens(tokens) ==
    IF Len(tokens) < 3 THEN [err |-> "ValueError", mm |-> 0]
    ELSE IF ~IsFloat(tokens[2]) THEN [err |-> "ValueError", mm |-> 0]
    ELSE length_to_mm(tokens[2][1].n, tokens[3])

\* Parser state of from_macro: the payload under construction and the locals
\* of lines 223-227.
DecodeStart(base) ==
    [err |-> "", payload |-> base,
     size_x_mm |-> None, size_y_mm |-> None,
     aperture_radius_mm |-> None, parsed_thickness_mm |-> None]

SetLen(st, tokens, Upd(_, _)) ==
    LET r == parse_length_tokens(tokens)
    IN  IF r.err # "" THEN [st EXCEPT !.err = r.err] ELSE Upd(st, r.mm)

\* One iteration of the loop of from_macro (lines 229-293).
from_macro_line(st, raw_line) ==
    LET line == strip(raw_line)
        lexed == shlex_split(line)
        tokens == lexed.tokens
        command == tokens[1]
    IN  IF line = <<>> \/ startswith_hash(line) THEN st
        ELSE IF lexed.err # "" THEN [st EXCEPT !.err = lexed.err]
        ELSE IF tokens = <<>> THEN st
        ELSE IF command = Txt("/output/format") /\ Len(tokens) >= 2
        THEN [st EXCEPT !.payload.metadata.output_info.output_format = lower(strip(tokens[2]))]
        ELSE IF command = Txt("/output/path") /\ Len(tokens) >= 2
        THEN [st EXCEPT !.payload.metadata.output_info.data_directory = tokens[2]]
        ELSE IF command = Txt("/output/runname") /\ Len(tokens) >= 2
        THEN [st EXCEPT !.payload.metadata.simulation_run_id = tokens[2]]
        ELSE IF command = Txt("/scintillator/geom/material") /\ Len(tokens) >= 2
        THEN [st EXCEPT !.payload.scintillator.properties.name = tokens[2]]
        ELSE IF command = Txt("/scintillator/geom/scintX")
        THEN SetLen(st, tokens, LAMBDA t, v : [t EXCEPT !.payload.scintillator.dimension_mm.x_mm = v])
        ELSE IF command = Txt("/scintillator/geom/scintY")
        THEN SetLen(st, tokens, LAMBDA t, v : [t EXCEPT !.payload.scintillator.dimension_mm.y_mm = v])
        ELSE IF command = Txt("/scintillator/geom/scintZ")
        THEN SetLen(st, tokens, LAMBDA t, v : [t EXCEPT !.payload.scintillator.dimension_mm.z_mm = v])
        ELSE IF command = Txt("/scintillator/geom/posX")
        THEN SetLen(st, tokens, LAMBDA t, v : [t EXCEPT !.payload.scintillator.position_mm.x_mm = v])
        ELSE IF command = Txt("/scintillator/geom/posY")
        THEN SetLen(st, tokens, LAMBDA t, v : [t EXCEPT !.payload.scintillator.position_mm.y_mm = v])
        ELSE IF command = Txt("/scintillator/geom/posZ")
        THEN SetLen(st, tokens, LAMBDA t, v : [t EXCEPT !.payload.scintillator.position_mm.z_mm = v])
        ELSE IF command = Txt("/scintillator/geom/apertureRadius")
        THEN SetLen(st, tokens, LAMBDA t, v : [t EXCEPT !.aperture_radius_mm = Some(v)])
        ELSE IF command = Txt("/optical_interface/geom/sizeX")
        THEN SetLen(st, tokens, LAMBDA t, v : [t EXCEPT !.size_x_mm = Some(v)])
        ELSE IF command = Txt("/optical_interface/geom/sizeY")
        THEN SetLen(st, tokens, LAMBDA t, v : [t EXCEPT !.size_y_mm = Some(v)])
        ELSE IF command = Txt("/optical_interface/geom/thickness")
        THEN SetLen(st, tokens, LAMBDA t, v : [t EXCEPT !.parsed_thickness_mm = Some(v)])
        ELSE IF command = Txt("/optical_interface/geom/posX")
        THEN SetLen(st, tokens, LAMBDA t, v :
                 [t EXCEPT !.payload.optical.sensitive_detector_config.position_mm.x_mm = v])
        ELSE IF command = Txt("/optical_interface/geom/posY")
        THEN SetLen(st, tokens, LAMBDA t, v :
                 [t EXCEPT !.payload.optical.sensitive_detector_config.position_mm.y_mm = v])
        ELSE IF command = Txt("/optical_interface/geom/posZ")
        THEN SetLen(st, tokens, LAMBDA t, v :
                 [t EXCEPT !.payload.optical.sensitive_detector_config.position_mm.z_mm = v])
        ELSE st

\* The loop: a line that raises ends the call.
RECURSIVE from_macro_lines(_, _)
from_macro_lines(st, lines) ==
    IF lines = <<>> \/ st.err # "" THEN st
    ELSE from_macro_lines(from_macro_line(st, Head(lines)), Tail(lines))

\* 1.0e-9 mm, the abs_tol of math.isclose, in ticks.
ABS_TOL == Ticks \div Pow10(9)

isclose(a, b) == Abs(a - b) <= ABS_TOL

\* entrance_from_sizes that prefers sizeX when the two sizes differ.
entrance_from_sizes_prefers_x(st) ==
    IF ~IsNone(st.size_x_mm) THEN [err |-> "", value |-> st.size_x_mm]
    ELSE IF ~IsNone(st.size_y_mm) THEN [err |-> "", value |-> st.size_y_mm]
    ELSE [err |-> "", value |-> None]

\* Lines 307-317: the entrance diameter the size commands give, [err, value]
entrance_from_sizes(st) ==
    IF ~IsNone(st.size_x_mm) /\ ~IsNone(st.size_y_mm)
    THEN IF ~isclose(Val(st.size_x_mm), Val(st.size_y_mm))
         THEN [err |-> "ValueError", value |-> None]
         ELSE [err |-> "", value |-> st.size_x_mm]
    ELSE IF ~IsNone(st.size_x_mm) THEN [err |-> "", value |-> st.size_x_mm]
    ELSE IF ~IsNone(st.size_y_mm) THEN [err |-> "", value |-> st.size_y_mm]
    ELSE [err |-> "", value |-> None]

\* apply_aperture_mapping that, without an aperture command, ties the sensor
\* max width to the entrance diameter whether or not a size command was read.
apply_aperture_mapping_ties_width(payload, entrance_diameter_mm, aperture_radius_mm) ==
    LET p1 == IF ~IsNone(entrance_diameter_mm)
              THEN [payload EXCEPT !.optical.geometry.entrance_diameter = Val(entrance_diameter_mm)]
              ELSE payload
    IN  IF ~IsNone(aperture_radius_mm)
        THEN LET desired_diameter_mm == 2 * Val(aperture_radius_mm)
                 p2 == [p1 EXCEPT !.optical.sensitive_detector_config.shape = Txt("circle")]
             IN  IF IsNone(entrance_diameter_mm)
                 THEN [p2 EXCEPT !.optical.geometry.entrance_diameter = desired_diameter_mm,
                                 !.optical.geometry.sensor_max_width = desired_diameter_mm,
                                 !.optical.sensitive_detector_config.diameter_rule = RULE_MIN]
                 ELSE IF Val(entrance_diameter_mm) + ABS_TOL >= desired_diameter_mm
                 THEN [p2 EXCEPT !.optical.geometry.sensor_max_width = desired_diameter_mm,
                                 !.optical.sensitive_detector_config.diameter_rule = RULE_MIN]
                 ELSE [p2 EXCEPT !.optical.geometry.sensor_max_width = desired_diameter_mm,
                                 !.optical.sensitive_detector_config.diameter_rule = RULE_SENSOR]
        ELSE [p1 EXCEPT !.optical.sensitive_detector_config.shape = Txt("none"),
                        !.optical.sensitive_detector_config.diameter_rule = RULE_ENTRANCE,
                        !.optical.geometry.sensor_max_width = p1.optical.geometry.entrance_diameter]

\* apply_aperture_mapping that names the min rule whatever the entrance
\* diameter is.
apply_aperture_mapping_always_min(payload, entrance_diameter_mm, aperture_radius_mm) ==
    LET p1 == IF ~IsNone(entrance_diameter_mm)
              THEN [payload EXCEPT !.optical.geometry.entrance_diameter = Val(entrance_diameter_mm)]
              ELSE payload
    IN  IF ~IsNone(aperture_radius_mm)
        THEN LET desired_diameter_mm == 2 * Val(aperture_radius_mm)
                 p2 == [p1 EXCEPT !.optical.sensitive_detector_config.shape = Txt("circle")]
             IN  IF IsNone(entrance_diameter_mm)
                 THEN [p2 EXCEPT !.optical.geometry.entrance_diameter = desired_diameter_mm,
                                 !.optical.geometry.sensor_max_width = desired_diameter_mm,
                                 !.optical.sensitive_detector_config.diameter_rule = RULE_MIN]
                 ELSE [p2 EXCEPT !.optical.geometry.sensor_max_width = desired_diameter_mm,
                                 !.optical.sensitive_detector_config.diameter_rule = RULE_MIN]
        ELSE LET p3 == [p1 EXCEPT !.optical.sensitive_detector_config.shape = Txt("none"),
                                  !.optical.sensitive_detector_config.diameter_rule = RULE_ENTRANCE]
             IN  IF ~IsNone(entrance_diameter_mm)
                 THEN [p3 EXCEPT !.optical.geometry.sensor_max_width = Val(entrance_diameter_mm)]
                 ELSE p3

\* apply_aperture_mapping that, without an aperture command, leaves the
\* detector shape and the diameter rule as the template has them.
apply_aperture_mapping_keeps_shape(payload, entrance_diameter_mm, aperture_radius_mm) ==
    LET p1 == IF ~IsNone(entrance_diameter_mm)
              THEN [payload EXCEPT !.optical.geometry.entrance_diameter = Val(entrance_diameter_mm)]
              ELSE payload
    IN  IF ~IsNone(aperture_radius_mm)
        THEN LET desired_diameter_mm == 2 * Val(aperture_radius_mm)
                 p2 == [p1 EXCEPT !.optical.sensitive_detector_config.shape = Txt("circle")]
             IN  IF IsNone(entrance_diameter_mm)
                 THEN [p2 EXCEPT !.optical.geometry.entrance_diameter = desired_diameter_mm,
                                 !.optical.geometry.sensor_max_width = desired_diameter_mm,
                                 !.optical.sensitive_detector_config.diameter_rule = RULE_MIN]
                 ELSE IF Val(entrance_diameter_mm) + ABS_TOL >= desired_diameter_mm
                 THEN [p2 EXCEPT !.optical.geometry.sensor_max_width = desired_diameter_mm,
                                 !.optical.sensitive_detector_config.diameter_rule = RULE_MIN]
                 ELSE [p2 EXCEPT !.optical.geometry.sensor_max_width = desired_diameter_mm,
                                 !.optical.sensitive_detector_config.diameter_rule = RULE_SENSOR]
        ELSE IF ~IsNone(entrance_diameter_mm)
             THEN [p1 EXCEPT !.optical.geometry.sensor_max_width = Val(entrance_diameter_mm)]
             ELSE p1

\* Lines 319-343: entrance diameter, detector shape, diameter rule and sensor
\* max width of the payload.
apply_aperture_mapping(payload, entrance_diameter_mm, aperture_radius_mm) ==
    LET p1 == IF ~IsNone(entrance_diameter_mm)
              THEN [payload EXCEPT !.optical.geometry.entrance_diameter = Val(entrance_diameter_mm)]
              ELSE payload
    IN  IF ~IsNone(aperture_radius_mm)
        THEN LET desired_diameter_mm == 2 * Val(aperture_radius_mm)
                 p2 == [p1 EXCEPT !.optical.sensitive_detector_config.shape = Txt("circle")]
             IN  IF IsNone(entrance_diameter_mm)
                 THEN [p2 EXCEPT !.optical.geometry.entrance_diameter = desired_diameter_mm,
                                 !.optical.geometry.sensor_max_width = desired_diameter_mm,
                                 !.optical.sensitive_detector_config.diameter_rule = RULE_MIN]
                 ELSE IF Val(entrance_diameter_mm) + ABS_TOL >= desired_diameter_mm
                 THEN [p2 EXCEPT !.optical.geometry.sensor_max_width = desired_diameter_mm,
                                 !.optical.sensitive_detector_config.diameter_rule = RULE_MIN]
                 ELSE [p2 EXCEPT !.optical.geometry.sensor_max_width = desired_diameter_mm,
                                 !.optical.sensitive_detector_config.diameter_rule = RULE_SENSOR]
        ELSE LET p3 == [p1 EXCEPT !.optical.sensitive_detector_config.shape = Txt("none"),
                                  !.optical.sensitive_detector_config.diameter_rule = RULE_ENTRANCE]
             IN  IF ~IsNone(entrance_diameter_mm)
                 THEN [p3 EXCEPT !.optical.geometry.sensor_max_width = Val(entrance_diameter_mm)]
                 ELSE p3

\* SimConfig.model_validate of the hierarchical schema: extents and
\* diameters are strictly positive.
model_validate(payload) ==
    /\ payload.scintillator.dimension_mm.x_mm > 0
    /\ payload.scintillator.dimension_mm.y_mm > 0
    /\ payload.scintillator.dimension_mm.z_mm > 0
    /\ payload.optical.geometry.entrance_diameter > 0
    /\ payload.optical.geometry.sensor_max_width > 0

\* [err, config]: from_macro(macro_path, template=base)
from_macro(f, base) ==
    IF ~f.exists THEN [err |-> "FileNotFoundError", config |-> None]
    ELSE
    LET st == from_macro_lines(DecodeStart(base), f.lines)
        e == entrance_from_sizes(st)
    IN  IF st.err # "" THEN [err |-> st.err, config |-> None]
        ELSE IF ~IsNone(st.parsed_thickness_mm)
                /\ ~isclose(Val(st.parsed_thickness_mm), DEFAULT_OPTICAL_INTERFACE_THICKNESS_MM)
        THEN [err |-> "ValueError", config |-> None]
        ELSE IF e.err # "" THEN [err |-> e.err, config |-> None]
        ELSE LET payload == apply_aperture_mapping(st.payload, e.value, st.aperture_radius_mm)
             IN  IF model_validate(payload)
                 THEN [err |-> "", config |-> Some(payload)]
                 ELSE [err |-> "ValidationError", config |-> None]

----------------------------------------------------------------------------
(* src/config/SimConfig.py: the flat SimConfig object *)

\* load_lens_models(self.lenses) against the lens files as they are now:
\* [err, models], models[i] holding the aggregates of lenses[i].
RECURSIVE load_lens_models(_, _)
load_lens_models(lenses, env) ==
    IF lenses = <<>> THEN [err |-> "", models |-> <<>>]
    ELSE LET m == env[Head(lenses)]
             rest == load_lens_models(Tail(lenses), env)
         IN  IF m.err # "" THEN [err |-> m.err, models |-> <<>>]
             ELSE IF rest.err # "" THEN rest
             ELSE [err |-> "", models |-> <<m>> \o rest.models]

\* reversed: bool | list[bool], held as [is_list, flags]
lens_reversed_flags(self) ==
    IF ~self.reversed.is_list
    THEN [i \in 1..Len(self.lenses) |-> self.reversed.flags[1]]
    ELSE self.reversed.flags

primary_lens_is_reversed(self) == lens_reversed_flags(self)[1]

\* default_optical_interface_diameter_mm reading the last lens of the list.
default_optical_interface_diameter_mm_last_lens(self, env) ==
    LET loaded == load_lens_models(self.lenses, env)
        n == Len(self.lenses)
    IN  IF loaded.err # "" THEN [err |-> loaded.err, mm |-> 0]
        ELSE IF lens_reversed_flags(self)[n]
        THEN [err |-> "", mm |-> loaded.models[n].image_circle_diameter_mm]
        ELSE [err |-> "", mm |-> loaded.models[n].clear_diameter_mm]

\* [err, mm]
default_optical_interface_diameter_mm(self, env) ==
    LET loaded == load_lens_models(self.lenses, env)
    IN  IF loaded.err # "" THEN [err |-> loaded.err, mm |-> 0]
        ELSE IF primary_lens_is_reversed(self)
        THEN [err |-> "", mm |-> loaded.models[1].image_circle_diameter_mm]
        ELSE [err |-> "", mm |-> loaded.models[1].clear_diameter_mm]

\* [err, mm]
resolved_optical_interface_diameter_mm(self, env) ==
    IF ~IsNone(self.optical_interface_diameter_mm)
    THEN [err |-> "", mm |-> Val(self.optical_interface_diameter_mm)]
    ELSE default_optical_interface_diameter_mm(self, env)

\* resolved_aperture_radius_mm returning a configured radius although the
\* mask is disabled.
resolved_aperture_radius_mm_ignores_mask(self, env) ==
    IF ~IsNone(self.aperture_radius_mm)
    THEN [err |-> "", radius |-> self.aperture_radius_mm]
    ELSE IF ~self.use_aperture_mask THEN [err |-> "", radius |-> None]
    ELSE LET d == resolved_optical_interface_diameter_mm(self, env)
         IN  IF d.err # "" THEN [err |-> d.err, radius |-> None]
             ELSE [err |-> "", radius |-> Some(Half(d.mm))]

\* [err, radius]: radius is None when the mask is disabled
resolved_aperture_radius_mm(self, env) ==
    IF ~self.use_aperture_mask THEN [err |-> "", radius |-> None]
    ELSE IF ~IsNone(self.aperture_radius_mm)
    THEN [err |-> "", radius |-> self.aperture_radius_mm]
    ELSE LET d == resolved_optical_interface_diameter_mm(self, env)
         IN  IF d.err # "" THEN [err |-> d.err, radius |-> None]
             ELSE [err |-> "", radius |-> Some(Half(d.mm))]

\* optical_interface_center_z_mm adding the centimetre fields unconverted.
optical_interface_center_z_mm_unconverted(self) ==
    self.scint_pos_z_cm + Half(self.scint_z_cm)
    + self.scint_back_to_optical_interface_mm + Half(self.optical_interface_thickness_mm)

optical_interface_center_z_mm(self) ==
    LET scint_center_z_mm == self.scint_pos_z_cm * 10
        scint_half_thickness_mm == Half(self.scint_z_cm * 10)
        optical_interface_half_thickness_mm == Half(self.optical_interface_thickness_mm)
    IN  scint_center_z_mm + scint_half_thickness_mm
        + self.scint_back_to_optical_interface_mm + optical_interface_half_thickness_mm

scint_back_face_z_mm(self) == (self.scint_pos_z_cm * 10) + Half(self.scint_z_cm * 10)

\* [err, cmds]: SimConfig.geometry_commands
SimConfig_geometry_commands(self, env) ==
    LET d == resolved_optical_interface_diameter_mm(self, env)
        a == resolved_aperture_radius_mm(self, env)
        base ==
            << CmdText("/scintillator/geom/material", self.scint_material),
               CmdLen("/scintillator/geom/scintX", format_g(self.scint_x_cm), "cm"),
               CmdLen("/scintillator/geom/scintY", format_g(self.scint_y_cm), "cm"),
               CmdLen("/scintillator/geom/scintZ", format_g(self.scint_z_cm), "cm"),
               CmdLen("/scintillator/geom/posX", format_g(self.scint_pos_x_cm), "cm"),
               CmdLen("/scintillator/geom/posY", format_g(self.scint_pos_y_cm), "cm"),
               CmdLen("/scintillator/geom/posZ", format_g(self.scint_pos_z_cm), "cm") >>
    IN  IF d.err # "" THEN [err |-> d.err, cmds |-> <<>>]
        ELSE IF a.err # "" THEN [err |-> a.err, cmds |-> <<>>]
        ELSE [err |-> "",
              cmds |->
                (IF ~IsNone(a.radius)
                 THEN Append(base, CmdLen("/scintillator/geom/apertureRadius",
                                          format_3f(Val(a.radius)), "mm"))
                 ELSE base)
                \o << CmdLen("/optical_interface/geom/sizeX", format_3f(d.mm), "mm"),
                      CmdLen("/optical_interface/geom/sizeY", format_3f(d.mm), "mm"),
                      CmdLen("/optical_interface/geom/thickness",
                             format_g(self.optical_interface_thickness_mm), "mm"),
                      CmdLen("/optical_interface/geom/posX",
                             format_g(self.optical_interface_pos_x_cm), "cm"),
                      CmdLen("/optical_interface/geom/posY",
                             format_g(self.optical_interface_pos_y_cm), "cm"),
                      CmdLen("/optical_interface/geom/posZ",
                             format_3f(optical_interface_center_z_mm(self)), "mm") >>]

\* cmd.split()[0]
prefix_of(text) == split(strip(text))[1]

\* A dict as a sequence of <<key, value>> pairs in insertion order.
dict_keys(d) == [i \in 1..Len(d) |-> d[i][1]]
dict_has(d, k) == \E i \in 1..Len(d) : d[i][1] = k
dict_get(d, k) == d[CHOOSE i \in 1..Len(d) : d[i][1] = k][2]
dict_set(d, k, v) ==
    IF dict_has(d, k)
    THEN [i \in 1..Len(d) |-> IF d[i][1] = k THEN <<k, v>> ELSE d[i]]
    ELSE Append(d, <<k, v>>)

\* {cmd.split()[0]: cmd for cmd in cmds}
RECURSIVE replacements_of(_, _)
replacements_of(cmds, d) ==
    IF cmds = <<>> THEN d
    ELSE replacements_of(Tail(cmds), dict_set(d, prefix_of(Head(cmds)), Head(cmds)))

\* patch_lines that appends the stripped text of a line it keeps.
RECURSIVE patch_lines_strips(_, _, _)
patch_lines_strips(lines, replacements, acc) ==
    IF lines = <<>> THEN acc
    ELSE LET line == Head(lines)
             stripped == strip(line)
             prefix == split(stripped)[1]
         IN  IF stripped = <<>> \/ startswith_hash(stripped)
             THEN patch_lines_strips(Tail(lines), replacements,
                                     [acc EXCEPT !.out_lines = Append(@, line)])
             ELSE IF dict_has(replacements, prefix)
             THEN patch_lines_strips(Tail(lines), replacements,
                              [out_lines |-> Append(acc.out_lines, dict_get(replacements, prefix)),
                               replaced |-> acc.replaced \cup {prefix}])
             ELSE patch_lines_strips(Tail(lines), replacements,
                                     [acc EXCEPT !.out_lines = Append(@, stripped)])

\* patch_lines that replaces matching lines without recording their prefix.
RECURSIVE patch_lines_never_marks(_, _, _)
patch_lines_never_marks(lines, replacements, acc) ==
    IF lines = <<>> THEN acc
    ELSE LET line == Head(lines)
             stripped == strip(line)
             prefix == split(stripped)[1]
         IN  IF stripped = <<>> \/ startswith_hash(stripped)
             THEN patch_lines_never_marks(Tail(lines), replacements,
                                          [acc EXCEPT !.out_lines = Append(@, line)])
             ELSE IF dict_has(replacements, prefix)
             THEN patch_lines_never_marks(Tail(lines), replacements,
                              [acc EXCEPT !.out_lines = Append(@, dict_get(replacements, prefix))])
             ELSE patch_lines_never_marks(Tail(lines), replacements,
                                          [acc EXCEPT !.out_lines = Append(@, line)])

\* patch_lines that marks a matching line as replaced and keeps its old text.
RECURSIVE patch_lines_keeps_old(_, _, _)
patch_lines_keeps_old(lines, replacements, acc) ==
    IF lines = <<>> THEN acc
    ELSE LET line == Head(lines)
             stripped == strip(line)
             prefix == split(stripped)[1]
         IN  IF stripped = <<>> \/ startswith_hash(stripped)
             THEN patch_lines_keeps_old(Tail(lines), replacements,
                                        [acc EXCEPT !.out_lines = Append(@, line)])
             ELSE IF dict_has(replacements, prefix)
             THEN patch_lines_keeps_old(Tail(lines), replacements,
                              [out_lines |-> Append(acc.out_lines, line),
                               replaced |-> acc.replaced \cup {prefix}])
             ELSE patch_lines_keeps_old(Tail(lines), replacements,
                                        [acc EXCEPT !.out_lines = Append(@, line)])

\* The loop of apply_geometry_to_macro (lines 413-426): [out_lines, replaced]
RECURSIVE patch_lines(_, _, _)
patch_lines(lines, replacements, acc) ==
    IF lines = <<>> THEN acc
    ELSE LET line == Head(lines)
             stripped == strip(line)
             prefix == split(stripped)[1]
         IN  IF stripped = <<>> \/ startswith_hash(stripped)
             THEN patch_lines(Tail(lines), replacements,
                              [acc EXCEPT !.out_lines = Append(@, line)])
             ELSE IF dict_has(replacements, prefix)
             THEN patch_lines(Tail(lines), replacements,
                              [out_lines |-> Append(acc.out_lines, dict_get(replacements, prefix)),
                               replaced |-> acc.replaced \cup {prefix}])
             ELSE patch_lines(Tail(lines), replacements,
                              [acc EXCEPT !.out_lines = Append(@, line)])

\* insert_index that always answers the end of the file.
insert_index_at_end(out_lines) == Len(out_lines)

\* next((i for i, line in enumerate(out_lines) if line.strip() == "/run/initialize"),
\*      len(out_lines)), counted from 0
insert_index(out_lines) ==
    LET hits == {i \in 1..Len(out_lines) : strip(out_lines[i]) = Txt("/run/initialize")}
    IN  IF hits = {} THEN Len(out_lines)
        ELSE (CHOOSE i \in hits : \A j \in hits : i <= j) - 1

\* out_lines[idx:idx] = block
insert_at(out_lines, idx, block) ==
    SubSeq(out_lines, 1, idx) \o block \o SubSeq(out_lines, idx + 1, Len(out_lines))

\* apply_geometry_to_macro that opens the file for writing before it resolves
\* the geometry: a failure there leaves the file empty.
apply_geometry_to_macro_truncates(self, env, f) ==
    LET fail(e) == [err |-> e, file |-> f, replacements |-> <<>>,
                    missing |-> <<>>, insert_idx |-> None]
        g == SimConfig_geometry_commands(self, env)
    IN  IF ~f.exists THEN fail("FileNotFoundError")
        ELSE IF g.err # "" THEN [fail(g.err) EXCEPT !.file = FileOf(<<>>)]
        ELSE
        LET replacements == replacements_of(g.cmds, <<>>)
            looped == patch_lines(f.lines, replacements, [out_lines |-> <<>>, replaced |-> {}])
            missing == SelectSeq(dict_keys(replacements), LAMBDA q : q \notin looped.replaced)
            insert_idx == insert_index(looped.out_lines)
            out_lines == IF missing # <<>>
                         THEN insert_at(looped.out_lines, insert_idx,
                                        [i \in 1..Len(missing) |-> dict_get(replacements, missing[i])])
                         ELSE looped.out_lines
        IN  [err |-> "", file |-> write_text(out_lines), replacements |-> replacements,
             missing |-> missing,
             insert_idx |-> IF missing # <<>> THEN Some(insert_idx) ELSE None]

\* What apply_geometry_to_macro(macro_path) does to the file f:
\* [err, file, replacements, missing, insert_idx]
apply_geometry_to_macro(self, env, f) ==
    LET fail(e) == [err |-> e, file |-> f, replacements |-> <<>>,
                    missing |-> <<>>, insert_idx |-> None]
        g == SimConfig_geometry_commands(self, env)
    IN  IF ~f.exists THEN fail("FileNotFoundError")
        ELSE IF g.err # "" THEN fail(g.err)
        ELSE
        LET replacements == replacements_of(g.cmds, <<>>)
            looped == patch_lines(f.lines, replacements, [out_lines |-> <<>>, replaced |-> {}])
            missing == SelectSeq(dict_keys(replacements), LAMBDA q : q \notin looped.replaced)
            insert_idx == insert_index(looped.out_lines)
            out_lines == IF missing # <<>>
                         THEN insert_at(looped.out_lines, insert_idx,
                                        [i \in 1..Len(missing) |-> dict_get(replacements, missing[i])])
                         ELSE looped.out_lines
        IN  [err |-> "", file |-> write_text(out_lines), replacements |-> replacements,
             missing |-> missing,
             insert_idx |-> IF missing # <<>> THEN Some(insert_idx) ELSE None]

----------------------------------------------------------------------------
(* Configurations and files the checks run over *)

\* n/d units of length in ticks (d divides Ticks)
L(n, d) == n * (Ticks \div d)

RuntimeControls(cv, rv, ev, tv, pp, st) ==
    [control_verbose |-> cv, run_verbose |-> rv, event_verbose |-> ev,
     tracking_verbose |-> tv, print_progress |-> pp, store_trajectory |-> st]

\* The optional simulation block of the hierarchical schema.
SimulationBlocks ==
    { None,
      Some([number_of_particles |-> Some(10000), runtime_controls |-> None]),
      Some([number_of_particles |-> None,
            runtime_controls |-> Some(RuntimeControls(0, 0, 0, 0, 1000, TRUE))]) }

HConfig(name, run_id, data_directory, output_format, shape, rule, entrance, width, sim) ==
    [metadata |-> [simulation_run_id |-> run_id,
                   working_directory |-> <<ROOT>>,
                   output_info |-> [output_format |-> output_format,
                                    data_directory |-> data_directory,
                                    log_directory |-> <<A("data/logs")>>]],
     scintillator |-> [properties |-> [name |-> name],
                       dimension_mm |-> [x_mm |-> L(100, 1), y_mm |-> L(100, 1), z_mm |-> L(20, 1)],
                       position_mm |-> [x_mm |-> 0, y_mm |-> 0, z_mm |-> 0]],
     optical |-> [lenses |-> <<"CanonEF50mmf1.0L">>,
                  geometry |-> [entrance_diameter |-> entrance, sensor_max_width |-> width],
                  sensitive_detector_config |->
                      [position_mm |-> [x_mm |-> 0, y_mm |-> 0, z_mm |-> L(21005, 100)],
                       shape |-> shape, diameter_rule |-> rule]],
     source |-> "gps",
     simulation |-> sim]

\* Names, run ids and data paths, with and without a blank inside.
StringProfiles ==
    { <<Txt("EJ200"), Txt("unit_macro_test"), Txt("data")>>,
      <<<<A("EJ"), SP, A("200")>>, Txt("unit_macro_test"), Txt("data")>>,
      <<Txt("EJ200"), <<A("my"), SP, A("run")>>, Txt("data")>>,
      <<Txt("EJ200"), Txt("unit_macro_test"), <<A("my"), SP, A("data")>>>>,
      <<Txt("EJ200"), Txt("unit_macro_test"), <<ROOT, A("abs")>>>> }

Formats == { Txt("hdf5"), Txt("H5") }

Shapes == { Txt("circle"), Txt("Circle"), Txt("none") }

RULE_MIN_SPACED == <<A("min(entranceDiameter,"), SP, A("sensorMaxWidth)")>>

\* Rule texts outside the three the resolver names.
RULE_MAX == <<A("max(entranceDiameter,"), A("sensorMaxWidth)")>>
RULE_ENTRANCE_CAPITAL == Txt("EntranceDiameter")

Rules == { RULE_MIN, RULE_MIN_SPACED, RULE_ENTRANCE, RULE_SENSOR, RULE_MAX, RULE_ENTRANCE_CAPITAL }

\* <<entrance diameter, sensor max width>>
Envelopes ==
    { <<L(6055, 100), L(36, 1)>>,
      <<L(36, 1), L(6055, 100)>>,
      <<L(6055556, 100000), L(3600004, 100000)>> }

Templates ==
    { HConfig(sp[1], sp[2], sp[3], f, sh, r, e[1], e[2], sim) :
        sp \in StringProfiles, f \in Formats, sh \in Shapes, r \in Rules,
        e \in Envelopes, sim \in SimulationBlocks }

NoResult == [err |-> "none", config |-> None]
NoCommands == [err |-> "none", cmds |-> <<>>]
NoFlags == [origin |-> "none", include_output |-> TRUE, include_run_initialize |-> TRUE]
NoOutcome == [err |-> "none", file |-> NoFile, replacements |-> <<>>,
              missing |-> <<>>, insert_idx |-> None]
NoConfig == [lenses |-> <<>>]
NoLens == <<>>
NoAnswer == [err |-> "none"]

----------------------------------------------------------------------------
(* Encoding and the round trip through a written file *)

InitEncode ==
    /\ pc = "start"
    /\ template \in Templates
    /\ flags = NoFlags
    /\ file = NoFile
    /\ imported = NoResult
    /\ commands = NoCommands
    /\ flat = NoConfig
    /\ lens = NoLens
    /\ before = NoFile
    /\ outcome = NoOutcome
    /\ answer = NoAnswer

\* commands = macro_commands(config)
MacroCommands ==
    /\ pc = "start"
    /\ commands' = macro_commands(template, TRUE, TRUE)
    /\ pc' = "encoded"
    /\ UNCHANGED <<template, flags, file, imported, flat, lens, before, outcome, answer>>

\* write_macro(config, macro_path, include_output=.., include_run_initialize=..)
WriteMacro ==
    /\ pc = "start"
    /\ \E io \in BOOLEAN, iri \in BOOLEAN :
         LET w == write_macro(template, file, io, iri)
         IN  /\ file' = w.file
             /\ flags' = [origin |-> IF w.err = "" THEN "written" ELSE "failed",
                          include_output |-> io, include_run_initialize |-> iri]
    /\ pc' = "written"
    /\ UNCHANGED <<template, imported, commands, flat, lens, before, outcome, answer>>

\* imported = from_macro(macro_path, template=config)
FromMacro ==
    /\ pc \in {"start", "written", "authored"}
    /\ imported' = from_macro(file, template)
    /\ pc' = "decoded"
    /\ UNCHANGED <<template, flags, file, commands, flat, lens, before, outcome, answer>>

\* reconstructed = macro_commands(imported)
Reencode ==
    /\ pc = "decoded"
    /\ imported.err = ""
    /\ commands' = macro_commands(Val(imported.config), TRUE, TRUE)
    /\ pc' = "reencoded"
    /\ UNCHANGED <<template, flags, file, imported, flat, lens, before, outcome, answer>>

\* _resolve_sensitive_detector_diameter_mm(config)
ResolveDiameter ==
    /\ pc = "start"
    /\ answer' = resolve_sensitive_detector_diameter_mm(template)
    /\ pc' = "resolved"
    /\ UNCHANGED <<template, flags, file, imported, commands, flat, lens, before, outcome>>

NextEncode == MacroCommands \/ WriteMacro \/ FromMacro \/ Reencode \/ ResolveDiameter

SpecEncode == InitEncode /\ [][NextEncode]_vars

----------------------------------------------------------------------------
(* Claims about encoding *)

DefaultWrite ==
    flags.origin = "written" /\ flags.include_output /\ flags.include_run_initialize

HasBlank(text) == \E i \in 1..Len(text) : text[i] = SP

\* C1: for every valid configuration c, decoding the file write_macro wrote
\* for c with template c and encoding the result gives exactly the command
\* list macro_commands(c) gives (whitespace in the data path, run name or
\* material name included).
C1_RoundTrip ==
    /\ (pc = "decoded" /\ DefaultWrite) => imported.err = ""
    /\ (pc = "reencoded" /\ DefaultWrite) => commands = macro_commands(template, TRUE, TRUE)

OutputPaths == {"/output/format", "/output/path", "/output/filename", "/output/runname"}
ScintPaths == {"/scintillator/geom/material", "/scintillator/geom/scintX",
               "/scintillator/geom/scintY", "/scintillator/geom/scintZ",
               "/scintillator/geom/posX", "/scintillator/geom/posY",
               "/scintillator/geom/posZ"}
AperturePath == "/scintillator/geom/apertureRadius"
InterfacePaths == {"/optical_interface/geom/sizeX", "/optical_interface/geom/sizeY",
                   "/optical_interface/geom/thickness", "/optical_interface/geom/posX",
                   "/optical_interface/geom/posY", "/optical_interface/geom/posZ"}
PreamblePaths == <<"/control/verbose", "/run/verbose", "/event/verbose",
                   "/tracking/verbose", "/run/printProgress", "/tracking/storeTrajectory">>
GpsPaths == {"/gps/particle", "/gps/pos/type", "/gps/pos/shape", "/gps/pos/centre",
             "/gps/pos/radius", "/gps/ang/type", "/gps/ang/rot1", "/gps/ang/rot2",
             "/gps/direction", "/gps/ene/type", "/gps/ene/mono"}

PathOf(line) == IF split(line) = <<>> THEN "" ELSE split(line)[1][1].s

\* Position of a line in the ordering contract; 0 for a line of no group.
GroupRank(line) ==
    LET q == PathOf(line)
    IN  CASE q \in OutputPaths -> 10
          [] q \in ScintPaths -> 20
          [] q = AperturePath -> 30
          [] q \in InterfacePaths -> 40
          [] \E k \in 1..Len(PreamblePaths) : PreamblePaths[k] = q ->
                50 + (CHOOSE k \in 1..Len(PreamblePaths) : PreamblePaths[k] = q)
          [] q = "/run/initialize" -> 60
          [] q \in GpsPaths -> 70
          [] q = "/run/beamOn" -> 80
          [] OTHER -> 0

Encoded == pc \in {"encoded", "reencoded"} /\ commands.err = ""

IntText(k) == <<Num(L(k, 1))>>

PreambleLines(rc) ==
    << CmdText("/control/verbose", IntText(rc.control_verbose)),
       CmdText("/run/verbose", IntText(rc.run_verbose)),
       CmdText("/event/verbose", IntText(rc.event_verbose)),
       CmdText("/tracking/verbose", IntText(rc.tracking_verbose)),
       CmdText("/run/printProgress", IntText(rc.print_progress)),
       CmdText("/tracking/storeTrajectory", IntText(IF rc.store_trajectory THEN 1 ELSE 0)) >>

HasRuntimeControls(config) ==
    ~IsNone(config.simulation) /\ ~IsNone(Val(config.simulation).runtime_controls)

ParticleCount(config) ==
    IF IsNone(config.simulation) THEN None ELSE Val(config.simulation).number_of_particles

\* C3: when the configuration carries runtimeControls, the first lines of
\* macro_commands are the six preamble lines, in order.
C3_PreamblePrefix ==
    (pc = "encoded" /\ commands.err = "" /\ HasRuntimeControls(template)) =>
        /\ Len(commands.cmds) >= 6
        /\ SubSeq(commands.cmds, 1, 6)
             = PreambleLines(Val(Val(template.simulation).runtime_controls))

\* C4: with a particle count N the last line of macro_commands is
\* "/run/beamOn N"; without one no /run/beamOn line is emitted.
C4_BeamOnLast ==
    (pc = "encoded" /\ commands.err = "") =>
        LET cmds == commands.cmds
            n == ParticleCount(template)
        IN  IF IsNone(n)
            THEN \A i \in 1..Len(cmds) : PathOf(cmds[i]) # "/run/beamOn"
            ELSE cmds # <<>> /\ cmds[Len(cmds)] = CmdText("/run/beamOn", IntText(Val(n)))

----------------------------------------------------------------------------
(* Decoding macro files written by hand *)

\* Lines a hand-written macro is made of.
DecodePool ==
    { CmdText("/output/format", Txt("HDF5")),
      CmdText("/output/path", Txt("out")),
      CmdText("/output/filename", Txt("other")),
      CmdText("/output/runname", Txt("imported")),
      CmdText("/scintillator/geom/material", Txt("LYSO")),
      CmdLen("/scintillator/geom/scintX", L(5, 1), "cm"),
      CmdLen("/scintillator/geom/apertureRadius", L(18, 1), "mm"),
      CmdLen("/scintillator/geom/apertureRadius", L(40, 1), "mm"),
      CmdLen("/scintillator/geom/apertureRadius", L(1800002, 100000), "mm"),
      CmdLen("/optical_interface/geom/sizeX", L(6055, 100), "mm"),
      CmdLen("/optical_interface/geom/sizeY", L(6055, 100), "mm"),
      CmdLen("/optical_interface/geom/sizeY", L(50, 1), "mm"),
      CmdLen("/optical_interface/geom/sizeY", L(6055, 1000), "cm"),
      CmdLen("/optical_interface/geom/thickness", L(2, 10), "mm"),
      CmdLen("/optical_interface/geom/posZ", L(300, 1), "mm"),
      <<HASH, SP, A("/output/runname"), SP, A("commented")>>,
      CmdText("/vis/open", Txt("OGL")),
      CmdText("/output/path", <<QUOTE, A("my"), SP, A("out"), QUOTE>>),
      <<A("/control/echo"), SP, A("it"), QUOTE, A("s"), SP, A("done")>>,
      <<SP, SP>> }

\* Lines a hand-written macro may hold after its optional preamble.
MaxMacroLines == 2

AuthoredPreambles == { RuntimeControls(1, 2, 3, 4, 50, TRUE) }

DecodeTemplates ==
    { HConfig(Txt("EJ200"), Txt("unit_macro_test"), Txt("data"), Txt("hdf5"),
              Txt("circle"), RULE_MIN, L(6055, 100), L(36, 1), None),
      HConfig(Txt("EJ200"), Txt("unit_macro_test"), Txt("data"), Txt("hdf5"),
              Txt("none"), RULE_ENTRANCE, L(6055, 100), L(6055, 100),
              Some([number_of_particles |-> None,
                    runtime_controls |-> Some(RuntimeControls(0, 0, 0, 0, 1000, FALSE))])),
      HConfig(Txt("EJ200"), Txt("unit_macro_test"), Txt("data"), Txt("hdf5"),
              Txt("square"), RULE_SENSOR, L(6055, 100), L(36, 1),
              Some([number_of_particles |-> Some(10000), runtime_controls |-> None])) }

InitDecode ==
    /\ pc = "start"
    /\ template \in DecodeTemplates
    /\ flags = NoFlags
    /\ file = NoFile
    /\ imported = NoResult
    /\ commands = NoCommands
    /\ flat = NoConfig
    /\ lens = NoLens
    /\ before = NoFile
    /\ outcome = NoOutcome
    /\ answer = NoAnswer

\* The user starts a macro with the run-control preamble.
AuthorPreamble ==
    /\ pc = "start"
    /\ \E rc \in AuthoredPreambles : file' = FileOf(PreambleLines(rc))
    /\ flags' = [flags EXCEPT !.origin = "preamble"]
    /\ pc' = "authored"
    /\ UNCHANGED <<template, imported, commands, flat, lens, before, outcome, answer>>

AuthoredLines ==
    IF flags.origin = "preamble" THEN Len(file.lines) - Len(PreamblePaths) ELSE Len(file.lines)

\* The user adds a line to the macro.
AuthorLine ==
    /\ pc \in {"start", "authored"}
    /\ AuthoredLines < MaxMacroLines
    /\ \E l \in DecodePool : file' = FileOf(Append(file.lines, l))
    /\ flags' = [flags EXCEPT !.origin = IF @ = "preamble" THEN @ ELSE "authored"]
    /\ pc' = "authored"
    /\ UNCHANGED <<template, imported, commands, flat, lens, before, outcome, answer>>

NextDecode == AuthorPreamble \/ AuthorLine \/ FromMacro \/ Reencode

SpecDecode == InitDecode /\ [][NextDecode]_vars

\* The recognised command paths among the lines of a file.
CommandPaths(lines) ==
    {PathOf(strip(lines[i])) :
        i \in {k \in 1..Len(lines) : strip(lines[k]) # <<>> /\ ~startswith_hash(strip(lines[k]))}}

RECURSIVE LastValue(_, _)
\* The number the last command with this path carries.
LastValue(lines, q) ==
    LET l == lines[Len(lines)]
    IN  IF PathOf(strip(l)) = q /\ ~startswith_hash(strip(l))
        THEN split(l)[2][1].n \div Ticks
        ELSE LastValue(SubSeq(lines, 1, Len(lines) - 1), q)

Decoded == pc = "decoded" /\ imported.err = ""

\* C5: decoding a macro that holds the six run-control preamble commands gives
\* a configuration whose simulation.runtime_controls is present and holds the
\* value of each command.
C5_RuntimeControlsDecoded ==
    (Decoded /\ \A k \in 1..Len(PreamblePaths) : PreamblePaths[k] \in CommandPaths(file.lines)) =>
        /\ HasRuntimeControls(Val(imported.config))
        /\ Val(Val(Val(imported.config).simulation).runtime_controls)
             = RuntimeControls(LastValue(file.lines, PreamblePaths[1]),
                               LastValue(file.lines, PreamblePaths[2]),
                               LastValue(file.lines, PreamblePaths[3]),
                               LastValue(file.lines, PreamblePaths[4]),
                               LastValue(file.lines, PreamblePaths[5]),
                               LastValue(file.lines, PreamblePaths[6]) = 1)

SizePaths == {"/optical_interface/geom/sizeX", "/optical_interface/geom/sizeY"}

\* Fields no command of the vocabulary can address are those of the template.
UnaddressableKept(c, t) ==
    /\ c.metadata.working_directory = t.metadata.working_directory
    /\ c.metadata.output_info.log_directory = t.metadata.output_info.log_directory
    /\ c.optical.lenses = t.optical.lenses
    /\ c.source = t.source
    /\ c.simulation = t.simulation

\* Each field with a command of its own is the template's when the macro
\* does not hold that command.
UnaddressedKept(c, t, paths) ==
    /\ "/output/format" \notin paths =>
          c.metadata.output_info.output_format = t.metadata.output_info.output_format
    /\ "/output/path" \notin paths =>
          c.metadata.output_info.data_directory = t.metadata.output_info.data_directory
    /\ "/output/runname" \notin paths =>
          c.metadata.simulation_run_id = t.metadata.simulation_run_id
    /\ "/scintillator/geom/material" \notin paths =>
          c.scintillator.properties.name = t.scintillator.properties.name
    /\ "/scintillator/geom/scintX" \notin paths =>
          c.scintillator.dimension_mm.x_mm = t.scintillator.dimension_mm.x_mm
    /\ "/scintillator/geom/scintY" \notin paths =>
          c.scintillator.dimension_mm.y_mm = t.scintillator.dimension_mm.y_mm
    /\ "/scintillator/geom/scintZ" \notin paths =>
          c.scintillator.dimension_mm.z_mm = t.scintillator.dimension_mm.z_mm
    /\ "/scintillator/geom/posX" \notin paths =>
          c.scintillator.position_mm.x_mm = t.scintillator.position_mm.x_mm
    /\ "/scintillator/geom/posY" \notin paths =>
          c.scintillator.position_mm.y_mm = t.scintillator.position_mm.y_mm
    /\ "/scintillator/geom/posZ" \notin paths =>
          c.scintillator.position_mm.z_mm = t.scintillator.position_mm.z_mm
    /\ "/optical_interface/geom/posX" \notin paths =>
          c.optical.sensitive_detector_config.position_mm.x_mm
            = t.optical.sensitive_detector_config.position_mm.x_mm
    /\ "/optical_interface/geom/posY" \notin paths =>
          c.optical.sensitive_detector_config.position_mm.y_mm
            = t.optical.sensitive_detector_config.position_mm.y_mm
    /\ "/optical_interface/geom/posZ" \notin paths =>
          c.optical.sensitive_detector_config.position_mm.z_mm
            = t.optical.sensitive_detector_config.position_mm.z_mm
    /\ paths \cap (SizePaths \cup {AperturePath}) = {} =>
          /\ c.optical.geometry.entrance_diameter = t.optical.geometry.entrance_diameter
          /\ c.optical.geometry.sensor_max_width = t.optical.geometry.sensor_max_width

ShapeAndRuleKept(c, t) ==
    /\ c.optical.sensitive_detector_config.shape = t.optical.sensitive_detector_config.shape
    /\ c.optical.sensitive_detector_config.diameter_rule
         = t.optical.sensitive_detector_config.diameter_rule

----------------------------------------------------------------------------
(* src/config/SimConfig.py: validation of the flat object *)

\* Field(gt=0.0) constraints of the schema
field_constraints(self) ==
    /\ self.scint_x_cm > 0 /\ self.scint_y_cm > 0 /\ self.scint_z_cm > 0
    /\ self.optical_interface_thickness_mm > 0
    /\ self.scint_back_to_optical_interface_mm > 0
    /\ (IsNone(self.optical_interface_diameter_mm) \/ Val(self.optical_interface_diameter_mm) > 0)
    /\ (IsNone(self.aperture_radius_mm) \/ Val(self.aperture_radius_mm) > 0)

\* aperture_radius_mm > 0.5 * math.hypot(scint_x_cm * 10, scint_y_cm * 10),
\* compared on squares in hundredths of a millimetre.
exceeds_half_diagonal(radius, x_cm, y_cm) ==
    LET h == Ticks \div 100
        r == radius \div h
        x == (x_cm * 10) \div h
        y == (y_cm * 10) \div h
    IN  4 * r * r > x * x + y * y

\* validate_geometry_invariants without the aperture check.
validate_geometry_invariants_no_aperture(self, env) ==
    LET d == resolved_optical_interface_diameter_mm(self, env)
    IN  IF d.err # "" THEN d.err
        ELSE IF d.mm <= 0 THEN "ValueError"
        ELSE IF optical_interface_center_z_mm(self) <= scint_back_face_z_mm(self)
        THEN "ValueError"
        ELSE ""

\* "" when the geometry invariants hold, else the error raised
validate_geometry_invariants(self, env) ==
    LET d == resolved_optical_interface_diameter_mm(self, env)
        a == resolved_aperture_radius_mm(self, env)
    IN  IF d.err # "" THEN d.err
        ELSE IF d.mm <= 0 THEN "ValueError"
        ELSE IF a.err # "" THEN a.err
        ELSE IF ~IsNone(a.radius)
                /\ exceeds_half_diagonal(Val(a.radius), self.scint_x_cm, self.scint_y_cm)
        THEN "ValueError"
        ELSE IF optical_interface_center_z_mm(self) <= scint_back_face_z_mm(self)
        THEN "ValueError"
        ELSE ""

\* "" when the object validates, else the error raised
validate_config(self, env) ==
    IF ~field_constraints(self) THEN "ValidationError"
    ELSE IF ~(1 <= Len(self.lenses) /\ Len(self.lenses) <= 2) THEN "ValueError"
    ELSE IF self.reversed.is_list /\ Len(self.reversed.flags) # Len(self.lenses) THEN "ValueError"
    ELSE validate_geometry_invariants(self, env)

----------------------------------------------------------------------------
(* Patching a macro file in place *)

LensOk == [err |-> "", clear_diameter_mm |-> L(6055, 100),
           image_circle_diameter_mm |-> L(4326, 100)]
LensMissing == [err |-> "FileNotFoundError", clear_diameter_mm |-> 0,
                image_circle_diameter_mm |-> 0]

LensNames == {"canon50", "nikkor80-200"}

LensesPresent == [n \in LensNames |-> LensOk]

FlatConfig(mask, diameter) ==
    [lenses |-> <<"canon50">>,
     reversed |-> [is_list |-> FALSE, flags |-> <<FALSE>>],
     scint_material |-> Txt("EJ200"),
     scint_x_cm |-> L(10, 1), scint_y_cm |-> L(10, 1), scint_z_cm |-> L(2, 1),
     scint_pos_x_cm |-> 0, scint_pos_y_cm |-> 0, scint_pos_z_cm |-> 0,
     optical_interface_thickness_mm |-> L(1, 10),
     optical_interface_pos_x_cm |-> 0, optical_interface_pos_y_cm |-> 0,
     scint_back_to_optical_interface_mm |-> L(200, 1),
     optical_interface_diameter_mm |-> diameter,
     use_aperture_mask |-> mask,
     aperture_radius_mm |-> None]

FlatConfigs ==
    { c \in { FlatConfig(mask, diameter) :
                mask \in BOOLEAN, diameter \in {None, Some(L(36, 1))} } :
        validate_config(c, LensesPresent) = "" }

\* Lines the macro file to patch is made of.
PatchPool ==
    { CmdText("/scintillator/geom/material", Txt("OLD")),
      <<SP, SP>> \o CmdLen("/scintillator/geom/apertureRadius", L(5, 1), "mm"),
      CmdText("/scintillator/geom/materialX", Txt("foo")),
      <<SP, A("/run/initialize"), SP>>,
      <<HASH, SP, A("/scintillator/geom/material"), SP, A("EJ200")>>,
      <<>>,
      CmdText("/run/beamOn", IntText(10)) }

\* Lines of the macro file to patch.
MaxFileLines == 3

InitPatch ==
    /\ pc = "start"
    /\ template = NoConfig
    /\ flags = NoFlags
    /\ file = NoFile
    /\ imported = NoResult
    /\ commands = NoCommands
    /\ flat \in FlatConfigs
    /\ lens = LensesPresent
    /\ before = NoFile
    /\ outcome = NoOutcome
    /\ answer = NoAnswer

\* The lens file of the primary lens is removed.
LensFileRemoved ==
    /\ pc = "start"
    /\ lens["canon50"].err = ""
    /\ lens' = [lens EXCEPT !["canon50"] = LensMissing]
    /\ UNCHANGED <<pc, template, flags, file, imported, commands, flat, before, outcome, answer>>

\* The user creates the macro file, empty.
CreateFile ==
    /\ pc = "start"
    /\ file' = FileOf(<<>>)
    /\ pc' = "authored"
    /\ UNCHANGED <<template, flags, imported, commands, flat, lens, before, outcome, answer>>

\* The user adds a line to the macro file.
AuthorPatchLine ==
    /\ pc = "authored"
    /\ Len(file.lines) < MaxFileLines
    /\ \E l \in PatchPool : file' = FileOf(Append(file.lines, l))
    /\ UNCHANGED <<pc, template, flags, imported, commands, flat, lens, before, outcome, answer>>

\* config.apply_geometry_to_macro(macro_path)
Patch ==
    /\ pc \in {"start", "authored"}
    /\ LET r == apply_geometry_to_macro(flat, lens, file)
       IN  /\ outcome' = r
           /\ file' = r.file
    /\ before' = file
    /\ pc' = "patched"
    /\ UNCHANGED <<template, flags, imported, commands, flat, lens, answer>>

\* config.apply_geometry_to_macro(macro_path) a second time in a row
PatchAgain ==
    /\ pc = "patched"
    /\ LET r == apply_geometry_to_macro(flat, lens, file)
       IN  /\ outcome' = r
           /\ file' = r.file
    /\ before' = file
    /\ pc' = "repatched"
    /\ UNCHANGED <<template, flags, imported, commands, flat, lens, answer>>

NextPatch == LensFileRemoved \/ CreateFile \/ AuthorPatchLine \/ Patch \/ PatchAgain

SpecPatch == InitPatch /\ [][NextPatch]_vars

----------------------------------------------------------------------------
(* Claims about the patch *)

Patched == pc = "patched" /\ outcome.err = ""

\* The geometry commands the configuration generates.
Generated == SimConfig_geometry_commands(flat, lens).cmds

IsCommand(line) == strip(line) # <<>> /\ ~startswith_hash(strip(line))

Range(f) == {f[i] : i \in DOMAIN f}

\* The leading command path of each line; nothing for a comment or a blank.
LeadingPaths(lines) ==
    <<>> \o [i \in 1..Len(lines) |-> IF IsCommand(lines[i]) THEN prefix_of(lines[i]) ELSE <<>>]

\* The lines (by index) whose leading command path is the path of one of
\* the commands gen.
GeneratedAt(gen, lines) ==
    LET paths == {p \in Range(LeadingPaths(gen)) : p # <<>>}
        lead == LeadingPaths(lines)
    IN  {i \in 1..Len(lines) : lead[i] \in paths}

Keep(lines, idxs) ==
    LET F[i \in 0..Len(lines)] ==
            IF i = 0 THEN <<>>
            ELSE IF i \in idxs THEN Append(F[i - 1], lines[i]) ELSE F[i - 1]
    IN  F[Len(lines)]

\* The lines that are not generated commands, in order.
Others(gen, lines) == Keep(lines, (1..Len(lines)) \ GeneratedAt(gen, lines))

\* C6: every line of the file that is not a generated geometry command
\* (comments, blank lines, unrelated commands) is in the patched file
\* verbatim, once per occurrence and in the original relative order.
C6_UnrelatedPreserved ==
    Patched =>
        LET gen == Generated
        IN  Others(gen, file.lines) = Others(gen, before.lines)

C6_Witness ==
    /\ Patched
    /\ LET hit == GeneratedAt(Generated, before.lines)
       IN  /\ Len(before.lines) - Cardinality(hit) >= 3
           /\ \E i \in (1..Len(before.lines)) \ hit :
                 IsCommand(before.lines[i]) /\ Head(before.lines[i]) = SP
    /\ \E i \in 1..Len(before.lines) : startswith_hash(strip(before.lines[i]))
    /\ file # before

\* The lines of a file without the block of n lines that follows line idx.
WithoutBlock(lines, idx, n) ==
    SubSeq(lines, 1, idx) \o SubSeq(lines, idx + n + 1, Len(lines))

\* The command of gen with the leading path q.
Fresh(gen, q) ==
    LET lead == LeadingPaths(gen)
    IN  gen[CHOOSE i \in 1..Len(gen) : lead[i] = q]

\* The original lines, each generated-command line replaced by the fresh
\* command of its path.
Replaced(gen, lines) ==
    LET hit == GeneratedAt(gen, lines)
    IN  [i \in 1..Len(lines) |->
            IF i \in hit THEN Fresh(gen, prefix_of(lines[i])) ELSE lines[i]]

\* C7: every non-comment line whose leading command path is that of a
\* generated command is replaced, at its position among the original lines,
\* by the fresh command; no other original line is altered.
C7_ReplacedInPlace ==
    Patched =>
        LET expected == Replaced(Generated, before.lines)
        IN  \E idx \in 0..Len(before.lines) :
                WithoutBlock(file.lines, idx, Len(file.lines) - Len(before.lines)) = expected

C7_Witness ==
    /\ Patched
    /\ LET gen == Generated
           hit == GeneratedAt(gen, before.lines)
       IN  \E i \in hit :
              /\ before.lines[i] # Fresh(gen, prefix_of(before.lines[i]))
              /\ \E j \in (1..Len(before.lines)) \ hit :
                    i < j /\ strip(before.lines[j]) # Txt("/run/initialize")
    /\ \E i \in 1..Len(before.lines) : strip(before.lines[i]) = Txt("/run/initialize")

\* How many command lines each command of gen leads with its path.
Occurrences(gen, lines) ==
    LET lead == LeadingPaths(lines)
        paths == LeadingPaths(gen)
    IN  <<>> \o [k \in 1..Len(gen) |-> Cardinality({i \in 1..Len(lines) : lead[i] = paths[k]})]

\* The commands of gen whose path leads no command line of the file.
Missing(gen, lines) ==
    LET n == Occurrences(gen, lines)
    IN  Keep(gen, {k \in 1..Len(gen) : n[k] = 0})

IsRunInitialize(line) == strip(line) = Txt("/run/initialize")

\* Lines before the first run-initialisation line; all of them without one.
RunInitializeIndex(lines) ==
    LET hits == {i \in 1..Len(lines) : IsRunInitialize(lines[i])}
    IN  IF hits = {} THEN Len(lines)
        ELSE Cardinality({i \in 1..Len(lines) : \A h \in hits : i < h})

\* C8: the generated commands whose path occurs on no command line of the
\* file are inserted as one block, in generation order and once each,
\* immediately before the first /run/initialize line, or at the end of the
\* file when there is none; a command that was present is not inserted again.
C8_MissingInserted ==
    Patched =>
        LET gen == Generated
            idx == RunInitializeIndex(before.lines)
            block == Missing(gen, before.lines)
            was == Occurrences(gen, before.lines)
            is == Occurrences(gen, file.lines)
        IN  /\ Len(file.lines) = Len(before.lines) + Len(block)
            /\ SubSeq(file.lines, idx + 1, idx + Len(block)) = block
            /\ idx < Len(before.lines) => IsRunInitialize(file.lines[idx + Len(block) + 1])
            /\ \A i \in 1..idx : ~IsRunInitialize(file.lines[i])
            /\ \A k \in 1..Len(gen) : is[k] = IF was[k] = 0 THEN 1 ELSE was[k]

C8_Witness ==
    /\ Patched
    /\ LET missing == Missing(Generated, before.lines)
       IN  Len(missing) >= 2 /\ Len(missing) < Len(Generated)
    /\ RunInitializeIndex(before.lines) >= 1
    /\ RunInitializeIndex(before.lines) + 1 < Len(before.lines)

\* C9: when apply_geometry_to_macro fails (missing macro file, failure while
\* resolving the geometry from the configuration or the lens file) the file
\* is exactly as it was and no file is created; when it succeeds the file is
\* the staged content, written once.
C9_AllOrNothing ==
    /\ (pc = "patched" /\ outcome.err # "") => file = before
    /\ Patched => (file.exists /\ before.exists /\ file = outcome.file)

C9_Witness ==
    /\ pc = "patched"
    /\ outcome.err = "FileNotFoundError"
    /\ before.exists
    /\ Len(before.lines) >= 2

----------------------------------------------------------------------------
(* Claims about decoding and re-encoding hand-written macros *)

Reencoded == pc = "reencoded"

HasPath(cmds, q) == \E i \in 1..Len(cmds) : PathOf(cmds[i]) = q

\* C11: for a macro file without an apertureRadius command, and any template
\* (one whose detector shape is circle included), the commands encoded from
\* the decoded configuration hold no apertureRadius line.
C11_NoApertureLine ==
    (Reencoded /\ AperturePath \notin CommandPaths(file.lines)) =>
        /\ commands.err = ""
        /\ ~HasPath(commands.cmds, AperturePath)

C11_Witness ==
    /\ Reencoded
    /\ AperturePath \notin CommandPaths(file.lines)
    /\ lower(strip(template.optical.sensitive_detector_config.shape)) = Txt("circle")
    /\ "/optical_interface/geom/sizeX" \in CommandPaths(file.lines)
    /\ HasPath(commands.cmds, "/optical_interface/geom/sizeX")

----------------------------------------------------------------------------
(* Claims about the diameter rule *)

SupportedRules == {RULE_MIN, RULE_ENTRANCE, RULE_SENSOR}

RuleOf(config) == config.optical.sensitive_detector_config.diameter_rule

\* The rule is none of the three names once its blanks are removed.
Unsupported(config) == remove_spaces(RuleOf(config)) \notin SupportedRules

IsCircle(config) ==
    lower(strip(config.optical.sensitive_detector_config.shape)) = Txt("circle")

\* Encoding raised the rule error: no list was returned, no file written.
RuleErrorRaised ==
    /\ pc = "encoded" => (commands.err = "ValueError" /\ commands.cmds = <<>>)
    /\ pc = "written" => (flags.origin = "failed" /\ file = NoFile)

\* C12 (as stated): for every configuration whose diameter rule is not a
\* supported rule, whatever the detector shape, macro_commands raises the rule
\* error and returns no list, and write_macro writes no file.
C12_UnsupportedRuleRaises ==
    Unsupported(template) => RuleErrorRaised

\* C12 (amended): with a circular detector shape an unsupported rule makes
\* macro_commands raise and return no list, and write_macro write no file;
\* with any other shape the rule is never resolved and encoding returns the
\* full list without an aperture line.
C12_Amended ==
    /\ (Unsupported(template) /\ IsCircle(template)) => RuleErrorRaised
    /\ (Unsupported(template) /\ ~IsCircle(template)) =>
          /\ pc = "encoded" =>
                /\ commands.err = ""
                /\ ~HasPath(commands.cmds, AperturePath)
                /\ Len(commands.cmds) = 18
          /\ pc = "written" => (flags.origin = "written" /\ file.exists)

C12_Witness ==
    /\ pc = "written"
    /\ flags.origin = "failed"
    /\ file = NoFile
    /\ template.optical.sensitive_detector_config.shape = Txt("Circle")
    /\ RuleOf(template) = RULE_MAX

\* What the resolver answers for a rule that is one of the three names.
RuleValue(config, rule) ==
    LET geometry == config.optical.geometry
    IN  IF rule = RULE_MIN
        THEN Min(geometry.entrance_diameter, geometry.sensor_max_width)
        ELSE IF rule = RULE_ENTRANCE THEN geometry.entrance_diameter
        ELSE geometry.sensor_max_width

\* C13 (as stated): the resolver accepts exactly the three rule strings and
\* answers min / entrance diameter / sensor max width for them; every other
\* string, those differing only by blanks or letter case included, is
\* rejected.
C13_ExactlyThreeRules ==
    pc = "resolved" =>
        IF RuleOf(template) \in SupportedRules
        THEN answer = [err |-> "", mm |-> RuleValue(template, RuleOf(template))]
        ELSE answer.err = "ValueError"

\* C13 (amended): the resolver removes the blanks of the rule text and then
\* accepts exactly the three rule strings, answering min / entrance diameter /
\* sensor max width; every other string, one differing by letter case
\* included, is rejected.
C13_Amended ==
    pc = "resolved" =>
        LET rule == remove_spaces(RuleOf(template))
        IN  IF rule \in SupportedRules
            THEN answer = [err |-> "", mm |-> RuleValue(template, rule)]
            ELSE answer.err = "ValueError"

C13_Witness ==
    /\ pc = "resolved"
    /\ RuleOf(template) = RULE_MIN_SPACED
    /\ answer.err = ""
    /\ answer.mm = template.optical.geometry.sensor_max_width
    /\ answer.mm < template.optical.geometry.entrance_diameter

----------------------------------------------------------------------------
(* Claims about the interface size commands *)

\* Millimetres in one unit, for the units the hand-written macros use.
MmPerUnit(u) == IF u = "cm" THEN 10 ELSE 1

\* The length, in mm, of the last command line with path q; None without one.
RECURSIVE LastLengthMm(_, _)
LastLengthMm(lines, q) ==
    IF lines = <<>> THEN None
    ELSE LET l == strip(lines[Len(lines)])
         IN  IF l # <<>> /\ ~startswith_hash(l) /\ PathOf(l) = q
             THEN Some(split(l)[2][1].n * MmPerUnit(split(l)[3][1].s))
             ELSE LastLengthMm(SubSeq(lines, 1, Len(lines) - 1), q)

\* C14: from_macro fails and returns no configuration when the macro gives
\* sizeX and sizeY and the two lengths, in mm, differ by more than the
\* tolerance; when they agree, or only one is given, the entrance diameter
\* of the configuration returned is that length.
C14_SizeConflict ==
    pc = "decoded" =>
        LET x == LastLengthMm(file.lines, "/optical_interface/geom/sizeX")
            y == LastLengthMm(file.lines, "/optical_interface/geom/sizeY")
        IN  IF ~IsNone(x) /\ ~IsNone(y) /\ Abs(Val(x) - Val(y)) > ABS_TOL
            THEN imported.err = "ValueError" /\ IsNone(imported.config)
            ELSE (imported.err = "" /\ (~IsNone(x) \/ ~IsNone(y))) =>
                    Val(imported.config).optical.geometry.entrance_diameter
                      = Val(IF ~IsNone(x) THEN x ELSE y)

\* sizeX 60.55 mm and then sizeY 50 mm: the decoder raises.
C14_Witness ==
    /\ pc = "decoded"
    /\ imported.err = "ValueError"
    /\ IsNone(imported.config)
    /\ Len(file.lines) = 2
    /\ file.lines[1] = CmdLen("/optical_interface/geom/sizeX", L(6055, 100), "mm")
    /\ file.lines[2] = CmdLen("/optical_interface/geom/sizeY", L(50, 1), "mm")

----------------------------------------------------------------------------
(* Length commands: one length line decoded on its own *)

\* <<value, unit>> pairs, the value in ticks of the unit it is written in.
LengthSamples ==
    { <<L(2000, 1), u>> : u \in {"nm", "nanometer", "nanometers"} }
    \cup { <<L(500, 1), u>> : u \in {"um", "micrometer", "micrometers"} }
    \cup { <<L(36, 1), u>> : u \in {"mm", "millimeter", "millimeters", "MM"} }
    \cup { <<L(5, 1), u>> : u \in {"cm", "centimeter", "centimeters", "CM"} }
    \cup { <<L(2, 10), u>> : u \in {"m", "meter", "meters"} }
    \cup { <<L(36, 1), u>> : u \in {"km", "inch", "mn"} }

LengthPaths ==
    {"/scintillator/geom/scintX", "/optical_interface/geom/posZ",
     "/scintillator/geom/apertureRadius"}

\* A length command line: well formed, without its unit, with a value that
\* is not a number, and with the value and unit swapped.
LengthLines ==
    { CmdLen(q, vu[1], vu[2]) : q \in LengthPaths, vu \in LengthSamples }
    \cup { <<A(q), SP, Num(L(36, 1))>> : q \in LengthPaths }
    \cup { <<A(q), SP, A("wide"), SP, A("mm")>> : q \in LengthPaths }
    \cup { <<A(q), SP, A("mm"), SP, Num(L(36, 1))>> : q \in LengthPaths }
    \cup { <<A(q)>> : q \in LengthPaths }

\* The user writes a macro of one length command.
AuthorLength ==
    /\ pc = "start"
    /\ \E l \in LengthLines : file' = FileOf(<<l>>)
    /\ flags' = [flags EXCEPT !.origin = "authored"]
    /\ pc' = "authored"
    /\ UNCHANGED <<template, imported, commands, flat, lens, before, outcome, answer>>

\* _parse_length_tokens(tokens, command) on the tokens of the line
ParseLength ==
    /\ pc = "authored"
    /\ answer' = parse_length_tokens(split(strip(file.lines[1])))
    /\ pc' = "parsed"
    /\ UNCHANGED <<template, flags, file, imported, commands, flat, lens, before, outcome>>

NextUnits == AuthorLength \/ ParseLength \/ FromMacro

SpecUnits == InitDecode /\ [][NextUnits]_vars

\* The fixed table: millimetres in one unit as <<numerator, denominator>>.
TableNm == {"nm", "nanometer", "nanometers"}
TableUm == {"um", "micrometer", "micrometers"}
TableMm == {"mm", "millimeter", "millimeters"}
TableCm == {"cm", "centimeter", "centimeters"}
TableM == {"m", "meter", "meters"}

\* Unit names are looked up without regard to letter case.
FoldCase(u) == IF u = "MM" THEN "mm" ELSE IF u = "CM" THEN "cm" ELSE u

InTable(u) == FoldCase(u) \in TableNm \cup TableUm \cup TableMm \cup TableCm \cup TableM

Millimetres(value, u) ==
    LET n == FoldCase(u)
    IN  IF n \in TableNm THEN value \div 1000000
        ELSE IF n \in TableUm THEN value \div 1000
        ELSE IF n \in TableMm THEN value
        ELSE IF n \in TableCm THEN value * 10
        ELSE value * 1000

\* The line is "<path> <number> <unit>" with the unit in the table.
WellFormedLength(line) ==
    /\ Len(line) = Len(CmdLen("", 0, ""))
    /\ IsNum(line[3])
    /\ ~IsNum(line[5])
    /\ InTable(line[5].s)

\* The field of the decoded configuration a length command addresses; the
\* aperture radius is read back as half the sensor max width.
LengthField(config, q) ==
    IF q = "/scintillator/geom/scintX" THEN config.scintillator.dimension_mm.x_mm
    ELSE IF q = "/optical_interface/geom/posZ"
    THEN config.optical.sensitive_detector_config.position_mm.z_mm
    ELSE Half(config.optical.geometry.sensor_max_width)

\* C15: a "<value> <unit>" pair is converted to millimetres with the table
\* nm=1e-6, um=1e-3, mm=1, cm=10, m=1000 (spelled-out names included); a
\* length command with a unit outside the table, a value that is not a
\* number, or no unit makes from_macro fail and return no configuration.
C15_UnitTable ==
    LET line == file.lines[1]
    IN  /\ pc = "parsed" =>
              IF WellFormedLength(line)
              THEN answer = [err |-> "", mm |-> Millimetres(line[3].n, line[5].s)]
              ELSE answer.err = "ValueError"
        /\ (pc = "decoded" /\ file.exists) =>
              IF WellFormedLength(line)
              THEN /\ imported.err = ""
                   /\ LengthField(Val(imported.config), PathOf(line))
                        = Millimetres(line[3].n, line[5].s)
              ELSE imported.err = "ValueError" /\ IsNone(imported.config)

C15_Witness ==
    /\ pc = "decoded"
    /\ file.exists
    /\ file.lines[1] = CmdLen("/scintillator/geom/scintX", L(36, 1), "km")
    /\ imported.err = "ValueError"
    /\ IsNone(imported.config)

----------------------------------------------------------------------------
(* Claims about the lines from_macro passes over *)

\* The command paths from_macro has a branch for.
DecodeVocabulary ==
    {"/output/format", "/output/path", "/output/runname"}
    \cup ScintPaths \cup {AperturePath} \cup InterfacePaths

\* A blank line, a comment, or a command outside the vocabulary.
Ignorable(raw_line) ==
    LET line == strip(raw_line)
    IN  line = <<>> \/ startswith_hash(line) \/ PathOf(line) \notin DecodeVocabulary

\* C16: blank lines, comment lines and lines whose command path is outside
\* the recognised vocabulary do not count: decoding the file gives what
\* decoding it without those lines gives, and raises no error of its own.
C16_IgnoredLines ==
    (pc = "decoded" /\ file.exists) =>
        imported = from_macro(FileOf(SelectSeq(file.lines, LAMBDA l : ~Ignorable(l))), template)

----------------------------------------------------------------------------
(* The flat SimConfig object: construction, assignment, validated copies *)

\* pydantic reports a ValueError raised by a validator as a ValidationError;
\* any other exception leaves the validator as it is.
wrap_validator_error(e) == IF e = "ValueError" THEN "ValidationError" ELSE e

\* SimConfig(**payload) and SimConfig.model_validate(payload): [err, config]
SimConfig_model_validate(payload, env) ==
    LET e == validate_config(payload, env)
    IN  IF e = "" THEN [err |-> "", config |-> Some(payload)]
        ELSE [err |-> wrap_validator_error(e), config |-> None]

\* self.<name> = value under validate_assignment=True: the fields are
\* validated on a copy of __dict__ with the new value; the copy then replaces
\* __dict__ and the mode="after" model validator runs on the object.
\* [err, self]
SimConfig_setattr(self, name, value, env) ==
    LET input_dict == [self EXCEPT ![name] = value]
    IN  IF ~field_constraints(input_dict)
        THEN [err |-> "ValidationError", self |-> self]
        ELSE [err |-> wrap_validator_error(validate_config(input_dict, env)),
              self |-> input_dict]

\* payload.update(updates), updates a sequence of <<name, value>>
RECURSIVE payload_update(_, _)
payload_update(payload, updates) ==
    IF updates = <<>> THEN payload
    ELSE payload_update([payload EXCEPT ![Head(updates)[1]] = Head(updates)[2]], Tail(updates))

\* validated_copy_with_updates that assigns the updates to the object itself.
validated_copy_with_updates_in_place(self, updates, env) ==
    LET payload == payload_update(self, updates)
        r == SimConfig_model_validate(payload, env)
    IN  [err |-> r.err, config |-> r.config, self |-> payload]

\* self.validated_copy_with_updates(**updates): [err, config, self]
validated_copy_with_updates(self, updates, env) ==
    LET payload == payload_update(self, updates)
        r == SimConfig_model_validate(payload, env)
    IN  [err |-> r.err, config |-> r.config, self |-> self]

with_geometry_updates(self, updates, env) == validated_copy_with_updates(self, updates, env)

resolved_optical_interface_diameter_source(self) ==
    IF ~IsNone(self.optical_interface_diameter_mm) THEN "manual_override"
    ELSE IF primary_lens_is_reversed(self) THEN "primary_lens_image_circle_diameter_mm"
    ELSE "primary_lens_clear_diameter_mm"

\* Lens files of the flat-object runs: two lenses of different size and a
\* prescription whose image surface has semi-diameter 0 (image circle 0).
LensNikkor == [err |-> "", clear_diameter_mm |-> L(82, 1),
               image_circle_diameter_mm |-> L(432, 10)]
LensBare == [err |-> "", clear_diameter_mm |-> L(20, 1), image_circle_diameter_mm |-> 0]

FlatLensEnv ==
    [n \in {"canon50", "nikkor80-200", "bare.zmx"} |->
        IF n = "canon50" THEN LensOk ELSE IF n = "nikkor80-200" THEN LensNikkor ELSE LensBare]

Scalar(b) == [is_list |-> FALSE, flags |-> <<b>>]
List(bs) == [is_list |-> TRUE, flags |-> bs]

LensLists ==
    { <<>>, <<"canon50">>, <<"nikkor80-200", "canon50">>, <<"bare.zmx">>,
      <<"canon50", "nikkor80-200", "canon50">> }

ReversedValues == { Scalar(FALSE), Scalar(TRUE), List(<<TRUE>>), List(<<TRUE, FALSE>>) }

\* Arguments of SimConfig(...)
FlatInputs ==
    { [FlatConfig(mask, diameter) EXCEPT
          !.lenses = ls, !.reversed = rv,
          !.scint_x_cm = side, !.scint_y_cm = side,
          !.aperture_radius_mm = radius] :
        mask \in BOOLEAN, diameter \in {None, Some(L(36, 1))},
        ls \in LensLists, rv \in ReversedValues,
        side \in {L(10, 1), L(2, 1)}, radius \in {None, Some(L(80, 1))} }

\* Field assignments callers make: <<name, value>>
Assignments ==
    { <<"lenses", <<"canon50">> >>,
      <<"lenses", <<"nikkor80-200", "canon50">> >>,
      <<"lenses", <<"bare.zmx">> >>,
      <<"reversed", Scalar(TRUE)>>,
      <<"reversed", List(<<TRUE, FALSE>>)>>,
      <<"scint_x_cm", L(2, 1)>>,
      <<"scint_x_cm", 0>>,
      <<"scint_y_cm", L(2, 1)>>,
      <<"aperture_radius_mm", Some(L(80, 1))>>,
      <<"aperture_radius_mm", None>>,
      <<"use_aperture_mask", FALSE>>,
      <<"optical_interface_diameter_mm", Some(L(36, 1))>> }

\* Keyword arguments of validated_copy_with_updates, one or two fields.
UpdateLists ==
    { <<a>> : a \in Assignments }
    \cup { <<a, b>> : a \in {x \in Assignments : x[1] = "lenses"},
                      b \in {x \in Assignments : x[1] = "reversed"} }
    \cup { << <<"scint_x_cm", L(2, 1)>>, <<"use_aperture_mask", FALSE>> >> }

InitFlat ==
    /\ pc = "start"
    /\ template = NoConfig
    /\ flags = NoFlags
    /\ file = NoFile
    /\ imported = NoResult
    /\ commands = NoCommands
    /\ flat = NoConfig
    /\ lens = FlatLensEnv
    /\ before = NoFile
    /\ outcome = NoOutcome
    /\ answer = NoAnswer

Built == flat # NoConfig

\* config = SimConfig(**input)
Construct ==
    /\ pc = "start"
    /\ \E input \in FlatInputs :
         LET r == SimConfig_model_validate(input, lens)
         IN  /\ answer' = [err |-> r.err, input |-> input]
             /\ flat' = IF r.err = "" THEN Val(r.config) ELSE flat
             /\ pc' = IF r.err = "" THEN "built" ELSE "rejected"
    /\ UNCHANGED <<template, flags, file, imported, commands, lens, before, outcome>>

\* config.<name> = value
SetAttr ==
    /\ Built
    /\ \E a \in Assignments :
         LET r == SimConfig_setattr(flat, a[1], a[2], lens)
         IN  /\ answer' = [err |-> r.err, update |-> a]
             /\ flat' = r.self
    /\ pc' = "assigned"
    /\ UNCHANGED <<template, flags, file, imported, commands, lens, before, outcome>>

\* copy = config.validated_copy_with_updates(**updates)
CopyWithUpdates ==
    /\ Built
    /\ \E u \in UpdateLists :
         LET r == validated_copy_with_updates(flat, u, lens)
         IN  /\ answer' = [err |-> r.err, config |-> r.config, updates |-> u]
             /\ flat' = r.self
    /\ pc' = "copied"
    /\ UNCHANGED <<template, flags, file, imported, commands, lens, before, outcome>>

\* config.resolved_optical_interface_diameter_mm() and ..._source()
ResolveInterfaceDiameter ==
    /\ Built
    /\ LET d == resolved_optical_interface_diameter_mm(flat, lens)
       IN  answer' = [err |-> d.err, mm |-> d.mm,
                      source |-> resolved_optical_interface_diameter_source(flat)]
    /\ pc' = "resolved"
    /\ UNCHANGED <<template, flags, file, imported, commands, flat, lens, before, outcome>>

\* config.resolved_aperture_radius_mm(), config.optical_interface_center_z_mm()
\* and config.geometry_commands()
GeometryCommands ==
    /\ Built
    /\ LET a == resolved_aperture_radius_mm(flat, lens)
           g == SimConfig_geometry_commands(flat, lens)
       IN  answer' = [err |-> g.err, cmds |-> g.cmds, radius |-> a.radius,
                      center_z_mm |-> optical_interface_center_z_mm(flat)]
    /\ pc' = "commands"
    /\ UNCHANGED <<template, flags, file, imported, commands, flat, lens, before, outcome>>

NextFlat ==
    Construct \/ SetAttr \/ CopyWithUpdates \/ ResolveInterfaceDiameter \/ GeometryCommands

SpecFlat == InitFlat /\ [][NextFlat]_vars

----------------------------------------------------------------------------
(* Claims about the flat SimConfig object *)

\* 4 r^2 <= x^2 + y^2, lengths in hundredths of a millimetre: the radius is
\* at most half the diagonal of the scintillator face.
WithinHalfDiagonal(radius_mm, x_cm, y_cm) ==
    LET h == Ticks \div 100
        r == radius_mm \div h
        x == (10 * x_cm) \div h
        y == (10 * y_cm) \div h
    IN  4 * r * r <= x * x + y * y

\* The diameter of the interface: the override, else the primary lens.
InterfaceDiameter(c, env) ==
    IF ~IsNone(c.optical_interface_diameter_mm) THEN Val(c.optical_interface_diameter_mm)
    ELSE IF c.reversed.flags[1] THEN env[c.lenses[1]].image_circle_diameter_mm
    ELSE env[c.lenses[1]].clear_diameter_mm

ApertureRadius(c, env) ==
    IF ~IsNone(c.aperture_radius_mm) THEN Val(c.aperture_radius_mm)
    ELSE Half(InterfaceDiameter(c, env))

\* The structural and geometric invariants of a SimConfig.
Invariants(c, env) ==
    /\ Len(c.lenses) \in {1, 2}
    /\ c.reversed.is_list => Len(c.reversed.flags) = Len(c.lenses)
    /\ InterfaceDiameter(c, env) > 0
    /\ c.use_aperture_mask =>
          WithinHalfDiagonal(ApertureRadius(c, env), c.scint_x_cm, c.scint_y_cm)
    /\ 10 * c.scint_pos_z_cm + Half(10 * c.scint_z_cm)
         + c.scint_back_to_optical_interface_mm + Half(c.optical_interface_thickness_mm)
       > 10 * c.scint_pos_z_cm + Half(10 * c.scint_z_cm)

\* C17: every SimConfig construction returns satisfies the invariants (lens
\* count 1 or 2, a flag list as long as the lens list, resolved diameter > 0,
\* aperture radius within half the face diagonal, interface centre beyond the
\* back face); an input that violates one is rejected with a validation
\* error and no object is made.
C17_ConstructionInvariants ==
    /\ pc = "built" => (answer.err = "" /\ flat = answer.input /\ Invariants(flat, lens))
    /\ pc = "rejected" => (answer.err # "" /\ flat = NoConfig)
    /\ pc \in {"built", "rejected"} =>
          (~Invariants(answer.input, lens) => (pc = "rejected" /\ answer.err = "ValidationError"))

\* One lens given a two-element orientation list.
C17_Witness ==
    /\ pc = "rejected"
    /\ answer.err = "ValidationError"
    /\ answer.input.lenses = <<"canon50">>
    /\ answer.input.reversed = List(<<TRUE, FALSE>>)
    /\ answer.input.scint_x_cm = L(10, 1)
    /\ IsNone(answer.input.aperture_radius_mm)

\* C18: after any field assignment, accepted or rejected, the object still
\* satisfies every invariant, and an assignment that raises leaves all the
\* fields at their previous values.
C18_AssignmentKeepsInvariants ==
    [][ pc' = "assigned" =>
          /\ Invariants(flat', lens')
          /\ answer'.err # "" => flat' = flat ]_vars

\* The fields of c with the keyword arguments u laid over them.
Updated(c, u) ==
    [f \in DOMAIN c |->
        IF \E i \in DOMAIN u : u[i][1] = f
        THEN u[CHOOSE i \in DOMAIN u : u[i][1] = f /\ \A j \in DOMAIN u : u[j][1] = f => j <= i][2]
        ELSE c[f]]

\* C19: validated_copy_with_updates / with_geometry_updates lays all the
\* updates over the current fields and validates once: it returns a new valid
\* configuration that differs from the original only in the updated fields,
\* or it raises; the original is unchanged either way; updates that are valid
\* as a whole succeed.
C19_ValidatedCopy ==
    [][ pc' = "copied" =>
          LET u == answer'.updates
              whole == Updated(flat, u)
          IN  /\ flat' = flat
              /\ answer'.err = "" =>
                    /\ Val(answer'.config) = whole
                    /\ Invariants(Val(answer'.config), lens)
              /\ answer'.err # "" => IsNone(answer'.config)
              /\ (whole.scint_x_cm > 0 /\ Invariants(whole, lens)) => answer'.err = "" ]_vars

\* Lens list and flag list replaced together on a one-lens object with a
\* one-element flag list: either assignment alone breaks the length invariant.
C19_Witness ==
    /\ pc = "copied"
    /\ answer.err = ""
    /\ answer.updates = << <<"lenses", <<"nikkor80-200", "canon50">> >>,
                           <<"reversed", List(<<TRUE, FALSE>>)>> >>
    /\ flat.lenses = <<"canon50">>
    /\ flat.reversed = List(<<TRUE>>)
    /\ Val(answer.config).lenses = <<"nikkor80-200", "canon50">>
    /\ ~Invariants([flat EXCEPT !.lenses = <<"nikkor80-200", "canon50">>], lens)
    /\ ~Invariants([flat EXCEPT !.reversed = List(<<TRUE, FALSE>>)], lens)

\* C20: the resolved interface diameter is the explicit override when one is
\* set; otherwise the clear diameter of lenses[0] when the first normalised
\* orientation flag is forward and its image-circle diameter when reversed;
\* the reported source names the same branch.
C20_ResolvedDiameter ==
    pc = "resolved" =>
        LET first == flat.lenses[1]
            turned == flat.reversed.flags[1]
        IN  /\ answer.err = ""
            /\ ~IsNone(flat.optical_interface_diameter_mm) =>
                  /\ answer.mm = Val(flat.optical_interface_diameter_mm)
                  /\ answer.source = "manual_override"
            /\ (IsNone(flat.optical_interface_diameter_mm) /\ ~turned) =>
                  /\ answer.mm = lens[first].clear_diameter_mm
                  /\ answer.source = "primary_lens_clear_diameter_mm"
            /\ (IsNone(flat.optical_interface_diameter_mm) /\ turned) =>
                  /\ answer.mm = lens[first].image_circle_diameter_mm
                  /\ answer.source = "primary_lens_image_circle_diameter_mm"

\* Two lenses, the first reversed and the second forward, no override.
C20_Witness ==
    /\ pc = "resolved"
    /\ flat.lenses = <<"nikkor80-200", "canon50">>
    /\ flat.reversed = List(<<TRUE, FALSE>>)
    /\ IsNone(flat.optical_interface_diameter_mm)
    /\ answer.mm = L(432, 10)
    /\ answer.source = "primary_lens_image_circle_diameter_mm"

\* C21: resolved_aperture_radius_mm returns none when the aperture mask is
\* disabled, even with an explicit radius configured; the explicit radius when
\* one is configured and the mask is enabled; otherwise exactly half of the
\* resolved interface diameter.  SimConfig.geometry_commands emits the
\* apertureRadius line if and only if that result is not none.
C21_ApertureRadius ==
    pc = "commands" =>
        /\ answer.err = ""
        /\ ~flat.use_aperture_mask => IsNone(answer.radius)
        /\ (flat.use_aperture_mask /\ ~IsNone(flat.aperture_radius_mm)) =>
              answer.radius = flat.aperture_radius_mm
        /\ (flat.use_aperture_mask /\ IsNone(flat.aperture_radius_mm)) =>
              /\ ~IsNone(answer.radius)
              /\ 2 * Val(answer.radius) = InterfaceDiameter(flat, lens)
        /\ HasPath(answer.cmds, AperturePath) <=> ~IsNone(answer.radius)

\* Mask disabled with an explicit radius configured: no radius, no line.
C21_Witness ==
    /\ pc = "commands"
    /\ ~flat.use_aperture_mask
    /\ flat.aperture_radius_mm = Some(L(80, 1))
    /\ IsNone(answer.radius)
    /\ ~HasPath(answer.cmds, AperturePath)
    /\ Len(answer.cmds) = 13

----------------------------------------------------------------------------
(* Axial placement of the optical interface *)

\* Arguments of SimConfig(...) that place the scintillator and the interface.
PlacedInputs ==
    { [FlatConfig(mask, diameter) EXCEPT
          !.scint_pos_z_cm = pos_z, !.scint_z_cm = z,
          !.scint_back_to_optical_interface_mm = standoff,
          !.optical_interface_thickness_mm = thickness] :
        mask \in BOOLEAN, diameter \in {None, Some(L(36, 1))},
        pos_z \in {0, L(-3, 1), L(5, 2)}, z \in {L(2, 1), L(1, 2)},
        standoff \in {L(200, 1), L(1, 1000)},
        thickness \in {0, L(1, 10), L(1, 1000)} }

\* config = SimConfig(**input) with placement arguments
ConstructPlaced ==
    /\ pc = "start"
    /\ \E input \in PlacedInputs :
         LET r == SimConfig_model_validate(input, lens)
         IN  /\ answer' = [err |-> r.err, input |-> input]
             /\ flat' = IF r.err = "" THEN Val(r.config) ELSE flat
             /\ pc' = IF r.err = "" THEN "built" ELSE "rejected"
    /\ UNCHANGED <<template, flags, file, imported, commands, lens, before, outcome>>

NextGeometry == ConstructPlaced \/ GeometryCommands

SpecGeometry == InitFlat /\ [][NextGeometry]_vars

\* Scintillator centre + half its thickness (centimetre fields times 10)
\* + standoff + half the interface thickness, in millimetres.
CentreZ(c) ==
    10 * c.scint_pos_z_cm + (10 * c.scint_z_cm) \div 2
    + c.scint_back_to_optical_interface_mm + c.optical_interface_thickness_mm \div 2

\* The number carried by the command with path q.
Carried(cmds, q) == cmds[CHOOSE i \in 1..Len(cmds) : PathOf(cmds[i]) = q][3].n

InterfacePosZ == "/optical_interface/geom/posZ"

\* C22 as stated: optical_interface_center_z_mm is scintillator centre Z + half
\* the scintillator thickness + standoff + half the interface thickness, the
\* centimetre fields multiplied by 10, and the /optical_interface/geom/posZ
\* command carries exactly this value in mm.
C22_PosZExact ==
    pc = "commands" =>
        /\ answer.center_z_mm = CentreZ(flat)
        /\ Carried(answer.cmds, InterfacePosZ) = CentreZ(flat)

\* C22 amended: the centre is that sum, and the posZ command carries it in mm
\* rounded to three decimals (a multiple of 0.001 mm at most half of 0.001 mm
\* away from it).
C22_Amended ==
    pc = "commands" =>
        LET q == Ticks \div 1000
            v == Carried(answer.cmds, InterfacePosZ)
        IN  /\ answer.center_z_mm = CentreZ(flat)
            /\ v % q = 0
            /\ 2 * Abs(v - CentreZ(flat)) <= q
            /\ answer.cmds[Len(answer.cmds)] = CmdLen(InterfacePosZ, v, "mm")

\* Scintillator centred at -3 cm, 2 cm thick, standoff 200 mm, interface
\* 0.001 mm thick: centre -30 + 10 + 200 + 0.0005 mm, not a multiple of 0.001.
C22_Witness ==
    /\ pc = "commands"
    /\ flat.scint_pos_z_cm = L(-3, 1)
    /\ flat.scint_z_cm = L(2, 1)
    /\ flat.scint_back_to_optical_interface_mm = L(200, 1)
    /\ flat.optical_interface_thickness_mm = L(1, 1000)
    /\ answer.center_z_mm = L(180, 1) + L(5, 10000)
    /\ Carried(answer.cmds, InterfacePosZ) # answer.center_z_mm

----------------------------------------------------------------------------
(* src/optics/LensModels.py: LensModel.from_zmx, the prescription parser *)

\* str.upper() on the atoms the prescription lines use.
UpperS(s) ==
    CASE s = "mm" -> "MM"
      [] s = "in" -> "IN"
      [] s = "infinity" -> "INFINITY"
      [] OTHER -> s

\* A parser that never sees a UNIT line.
unit_match_never(line) == FALSE

\* _UNIT_RE: UNIT followed by a word
unit_match(line) ==
    LET tokens == split(line)
    IN  Len(tokens) >= 2 /\ tokens[1] = Txt("UNIT") /\ ~IsNum(tokens[2][1])

\* _SURF_RE: SURF followed by digits
surf_match(line) ==
    LET tokens == split(line)
    IN  Len(tokens) >= 2 /\ tokens[1] = Txt("SURF") /\ IsNum(tokens[2][1])
        /\ tokens[2][1].n >= 0

\* _DIAM_RE: DIAM followed by a number
diam_match(line) ==
    LET tokens == split(line)
    IN  Len(tokens) >= 2 /\ tokens[1] = Txt("DIAM") /\ IsNum(tokens[2][1])

\* _DISZ_RE: DISZ followed by anything
disz_match(line) ==
    LET tokens == split(line)
    IN  Len(tokens) >= 2 /\ tokens[1] = Txt("DISZ")

\* _GLAS_RE
glas_match(line) ==
    LET tokens == split(line)
    IN  tokens # <<>> /\ tokens[1] = Txt("GLAS")

\* The parse state before the first line.
ZmxStart ==
    [err |-> "", unit |-> None, surfaces |-> <<>>, current_index |-> None,
     current_diam |-> 0, current_disz |-> None, current_has_glass |-> FALSE]

\* flush_surface that records a block even when no SURF line opened it.
flush_surface_always(st) ==
    [st EXCEPT
        !.surfaces = Append(@, [index |-> IF IsNone(st.current_index) THEN 0
                                          ELSE Val(st.current_index),
                                semi_diameter_mm |-> st.current_diam,
                                disz_to_next_mm |-> st.current_disz,
                                has_glass |-> st.current_has_glass]),
        !.current_index = None, !.current_diam = 0,
        !.current_disz = None, !.current_has_glass = FALSE]

flush_surface(st) ==
    IF IsNone(st.current_index) THEN st
    ELSE [st EXCEPT
            !.surfaces = Append(@, [index |-> Val(st.current_index),
                                    semi_diameter_mm |-> st.current_diam,
                                    disz_to_next_mm |-> st.current_disz,
                                    has_glass |-> st.current_has_glass]),
            !.current_index = None, !.current_diam = 0,
            !.current_disz = None, !.current_has_glass = FALSE]

\* The loop body keeping the largest DIAM of a block rather than the last
\* positive one.
zmx_line_keeps_largest(st0, line) ==
    LET tokens == split(line)
        st == IF unit_match(line) /\ IsNone(st0.unit)
              THEN [st0 EXCEPT !.unit = Some(UpperS(tokens[2][1].s))]
              ELSE st0
    IN  IF surf_match(line)
        THEN [flush_surface(st) EXCEPT !.current_index = Some(tokens[2][1].n)]
        ELSE IF IsNone(st.current_index) THEN st
        ELSE IF diam_match(line)
        THEN (IF tokens[2][1].n > st.current_diam
              THEN [st EXCEPT !.current_diam = tokens[2][1].n]
              ELSE st)
        ELSE IF disz_match(line)
        THEN (IF IsNum(tokens[2][1])
              THEN [st EXCEPT !.current_disz = Some(tokens[2][1].n)]
              ELSE IF UpperS(tokens[2][1].s) # "INFINITY"
              THEN [st EXCEPT !.err = "ValueError"]
              ELSE st)
        ELSE IF glas_match(line) THEN [st EXCEPT !.current_has_glass = TRUE]
        ELSE st

\* One pass of "for line in lines"
zmx_line(st0, line) ==
    LET tokens == split(line)
        st == IF unit_match(line) /\ IsNone(st0.unit)
              THEN [st0 EXCEPT !.unit = Some(UpperS(tokens[2][1].s))]
              ELSE st0
    IN  IF surf_match(line)
        THEN [flush_surface(st) EXCEPT !.current_index = Some(tokens[2][1].n)]
        ELSE IF IsNone(st.current_index) THEN st
        ELSE IF diam_match(line)
        THEN (IF tokens[2][1].n > 0
              THEN [st EXCEPT !.current_diam = tokens[2][1].n]
              ELSE st)
        ELSE IF disz_match(line)
        THEN (IF IsNum(tokens[2][1])
              THEN [st EXCEPT !.current_disz = Some(tokens[2][1].n)]
              ELSE IF UpperS(tokens[2][1].s) # "INFINITY"
              THEN [st EXCEPT !.err = "ValueError"]
              ELSE st)
        ELSE IF glas_match(line) THEN [st EXCEPT !.current_has_glass = TRUE]
        ELSE st

RECURSIVE zmx_scan(_, _)
zmx_scan(st, lines) ==
    IF lines = <<>> \/ st.err # "" THEN st
    ELSE zmx_scan(zmx_line(st, Head(lines)), Tail(lines))

RECURSIVE MaxOf(_)
\* max() of a non-empty sequence of numbers
MaxOf(values) ==
    IF Len(values) = 1 THEN values[1]
    ELSE LET m == MaxOf(Tail(values))
         IN  IF Head(values) >= m THEN Head(values) ELSE m

RECURSIVE SumOf(_)
SumOf(values) == IF values = <<>> THEN 0 ELSE Head(values) + SumOf(Tail(values))

\* max(surfaces, key=lambda s: s.index): the first surface of largest index
image_surface_of(surfaces) ==
    surfaces[CHOOSE i \in 1..Len(surfaces) :
                /\ \A j \in 1..Len(surfaces) : surfaces[j].index <= surfaces[i].index
                /\ \A j \in 1..(i - 1) : surfaces[j].index < surfaces[i].index]

NoLensModel == [err |-> "none"]

\* LensModel.from_zmx(path) with the default semi-diameter convention; the
\* inferred 3:2 sensor rectangle is left out.
from_zmx(f) ==
    IF ~f.exists THEN [err |-> "FileNotFoundError"]
    ELSE
    LET scanned == zmx_scan(ZmxStart, f.lines)
        st == flush_surface(scanned)
        surfaces == st.surfaces
        positive == SelectSeq(surfaces, LAMBDA s : s.semi_diameter_mm > 0)
        diam_values == [i \in 1..Len(positive) |-> positive[i].semi_diameter_mm]
        tracked == SelectSeq(surfaces, LAMBDA s : s.index > 0 /\ ~IsNone(s.disz_to_next_mm))
        glassy == SelectSeq(surfaces, LAMBDA s : s.has_glass)
        glass_indices == [i \in 1..Len(glassy) |-> glassy[i].index]
        stack == IF glass_indices = <<>> THEN <<>>
                 ELSE SelectSeq(surfaces, LAMBDA s :
                        /\ ~IsNone(s.disz_to_next_mm)
                        /\ -MaxOf([i \in 1..Len(glass_indices) |-> -glass_indices[i]]) <= s.index
                        /\ s.index <= MaxOf(glass_indices))
        image_surface == image_surface_of(surfaces)
    IN  IF scanned.err # "" THEN [err |-> scanned.err]
        ELSE IF ~IsNone(st.unit) /\ Val(st.unit) # "MM" THEN [err |-> "ValueError"]
        ELSE IF surfaces = <<>> THEN [err |-> "ValueError"]
        ELSE IF diam_values = <<>> THEN [err |-> "ValueError"]
        ELSE [err |-> "",
              surfaces |-> surfaces,
              max_surface_semidiameter_mm |-> MaxOf(diam_values),
              clear_diameter_mm |-> 2 * MaxOf(diam_values),
              total_track_length_mm |->
                  SumOf([i \in 1..Len(tracked) |-> Val(tracked[i].disz_to_next_mm)]),
              lens_stack_length_mm |->
                  SumOf([i \in 1..Len(stack) |-> Val(stack[i].disz_to_next_mm)]),
              image_surface_index |-> image_surface.index,
              image_plane_semidiameter_mm |-> image_surface.semi_diameter_mm,
              image_circle_diameter_mm |-> 2 * image_surface.semi_diameter_mm]

\* Lines of a prescription file.
ZmxPool ==
    { <<A("UNIT"), SP, A("MM"), SP, A("X")>>,
      <<A("UNIT"), SP, A("IN")>>,
      <<A("SURF"), SP, Num(0)>>,
      <<SP, SP, A("SURF"), SP, Num(1)>>,
      <<SP, SP, A("DIAM"), SP, Num(L(125, 10)), SP, Num(1)>>,
      <<SP, SP, A("DIAM"), SP, Num(L(30275, 1000))>>,
      <<SP, SP, A("DIAM"), SP, Num(0)>>,
      <<SP, SP, A("DISZ"), SP, Num(L(5, 1))>>,
      <<SP, SP, A("DISZ"), SP, A("INFINITY")>>,
      <<SP, SP, A("GLAS"), SP, A("N-BK7")>> }

\* Longest prescription file written.
MaxZmxLines == 4

InitZmx ==
    /\ pc = "start"
    /\ template = NoConfig
    /\ flags = NoFlags
    /\ file = NoFile
    /\ imported = NoResult
    /\ commands = NoCommands
    /\ flat = NoConfig
    /\ lens = NoLens
    /\ before = NoFile
    /\ outcome = NoOutcome
    /\ answer = NoLensModel

\* An empty prescription file appears at the path.
CreateZmx ==
    /\ pc = "start"
    /\ ~file.exists
    /\ file' = FileOf(<<>>)
    /\ UNCHANGED <<pc, template, flags, imported, commands, flat, lens, before, outcome, answer>>

\* One more line in the prescription file.
AppendZmxLine ==
    /\ pc = "start"
    /\ file.exists
    /\ Len(file.lines) < MaxZmxLines
    /\ \E line \in ZmxPool : file' = FileOf(Append(file.lines, line))
    /\ UNCHANGED <<pc, template, flags, imported, commands, flat, lens, before, outcome, answer>>

\* model = LensModel.from_zmx(path)
FromZmx ==
    /\ pc = "start"
    /\ answer' = from_zmx(file)
    /\ pc' = "parsed"
    /\ UNCHANGED <<template, flags, file, imported, commands, flat, lens, before, outcome>>

NextZmx == CreateZmx \/ AppendZmxLine \/ FromZmx

SpecZmx == InitZmx /\ [][NextZmx]_vars

----------------------------------------------------------------------------
(* Claims about the prescription parser *)

Parsed == pc = "parsed" /\ answer.err = ""

\* The words of a prescription line, blanks dropped.
Words(line) == SelectSeq(line, LAMBDA a : a # SP)
Keyword(line) == IF Words(line) = <<>> THEN "" ELSE Words(line)[1].s

\* Positions of the lines with this keyword.
LinesOf(lines, k) == {i \in 1..Len(lines) : Keyword(lines[i]) = k}

\* Position of the nearest SURF line before line i; 0 when there is none.
Owner(lines, i) ==
    LET above == {p \in LinesOf(lines, "SURF") : p < i}
    IN  IF above = {} THEN 0 ELSE CHOOSE p \in above : \A q \in above : q <= p

\* Position of the k-th SURF line.
NthSurf(lines, k) ==
    CHOOSE p \in LinesOf(lines, "SURF") :
        Cardinality({q \in LinesOf(lines, "SURF") : q <= p}) = k

Last(positions) == CHOOSE p \in positions : \A q \in positions : q <= p

\* Positions of the positive DIAM lines in the block opened at SURF line p.
PositiveDiams(lines, p) ==
    {i \in LinesOf(lines, "DIAM") : Owner(lines, i) = p /\ Words(lines[i])[2].n > 0}

\* Positions of the finite DISZ lines in the block opened at SURF line p.
FiniteDiszs(lines, p) ==
    {i \in LinesOf(lines, "DISZ") : Owner(lines, i) = p /\ IsNum(Words(lines[i])[2])}

\* The surface a block stands for.
BlockSurface(lines, p) ==
    [index |-> Words(lines[p])[2].n,
     semi_diameter_mm |->
        IF PositiveDiams(lines, p) = {} THEN 0
        ELSE Words(lines[Last(PositiveDiams(lines, p))])[2].n,
     disz_to_next_mm |->
        IF FiniteDiszs(lines, p) = {} THEN None
        ELSE Some(Words(lines[Last(FiniteDiszs(lines, p))])[2].n),
     has_glass |-> \E i \in LinesOf(lines, "GLAS") : Owner(lines, i) = p]

\* The positive DIAM values of the whole file.
FileDiams(lines) ==
    {Words(lines[i])[2].n : i \in {j \in LinesOf(lines, "DIAM") : Words(lines[j])[2].n > 0}}

\* The semi-diameters the blocks record.
BlockDiams(lines) ==
    {BlockSurface(lines, p).semi_diameter_mm : p \in LinesOf(lines, "SURF")}

Largest(values) == CHOOSE v \in values : \A w \in values : w <= v

\* C23 as stated: for every prescription file that parses, the clear diameter
\* is twice the largest positive DIAM value present anywhere in the file, and
\* max_surface_semidiameter_mm is that largest value.
C23_LargestInFile ==
    Parsed =>
        /\ answer.max_surface_semidiameter_mm = Largest(FileDiams(file.lines))
        /\ answer.clear_diameter_mm = 2 * Largest(FileDiams(file.lines))

\* C23 amended: the clear diameter is twice the largest semi-diameter
\* recorded for a surface, and max_surface_semidiameter_mm is that value; a
\* surface records the last positive DIAM of its own block, and a DIAM line
\* before the first SURF line belongs to no surface.
C23_Amended ==
    Parsed =>
        /\ answer.max_surface_semidiameter_mm = Largest(BlockDiams(file.lines))
        /\ answer.clear_diameter_mm = 2 * Largest(BlockDiams(file.lines))

\* Two surfaces of semi-diameter 12.5 and 30.275: clear diameter 60.55.
C23_Witness ==
    /\ Parsed
    /\ Len(file.lines) = 4
    /\ Len(answer.surfaces) = 2
    /\ answer.surfaces[1].semi_diameter_mm = L(125, 10)
    /\ answer.surfaces[2].semi_diameter_mm = L(30275, 1000)
    /\ answer.clear_diameter_mm = L(6055, 100)

\* The unit the first UNIT line declares, "" without a UNIT line.
DeclaredUnit(lines) ==
    IF LinesOf(lines, "UNIT") = {} THEN ""
    ELSE Words(lines[CHOOSE p \in LinesOf(lines, "UNIT") :
                        \A q \in LinesOf(lines, "UNIT") : p <= q])[2].s

\* C24: a missing file raises NotFound; a file whose first UNIT token is
\* present and is not millimetres raises a format error, while a file without
\* UNIT token is accepted; a file with zero SURF blocks, or with no positive
\* DIAM value in any block, raises a format error; in every error case no
\* LensModel is returned.
C24_FromZmxErrors ==
    pc = "parsed" =>
        /\ ~file.exists => answer.err = "FileNotFoundError"
        /\ (file.exists /\ DeclaredUnit(file.lines) \notin {"", "MM"}) =>
              answer.err = "ValueError"
        /\ (file.exists /\ LinesOf(file.lines, "SURF") = {}) => answer.err = "ValueError"
        /\ (file.exists /\ BlockDiams(file.lines) \subseteq {0}) => answer.err = "ValueError"
        /\ (/\ file.exists
            /\ DeclaredUnit(file.lines) = ""
            /\ LinesOf(file.lines, "SURF") # {}
            /\ ~(BlockDiams(file.lines) \subseteq {0})) => answer.err = ""
        /\ answer.err # "" => DOMAIN answer = {"err"}
        /\ answer.err = "" => "surfaces" \in DOMAIN answer

\* A file that declares inches first and millimetres afterwards.
C24_Witness ==
    /\ pc = "parsed"
    /\ file.exists
    /\ Len(file.lines) = 4
    /\ Keyword(file.lines[1]) = "UNIT" /\ Words(file.lines[1])[2].s = "IN"
    /\ Keyword(file.lines[2]) = "UNIT" /\ Words(file.lines[2])[2].s = "MM"
    /\ Keyword(file.lines[3]) = "SURF"
    /\ Keyword(file.lines[4]) = "DIAM" /\ Words(file.lines[4])[2].n > 0
    /\ answer.err = "ValueError"

----------------------------------------------------------------------------
(* Claims about the written macro and the hierarchical encoder *)

\* C25: write_macro persists exactly the sequence macro_commands returns for
\* the same configuration and flags: the lines of the written file, in order,
\* are that list, one command per line, nothing added and nothing dropped.
C25_WrittenLines ==
    (pc = "written" /\ flags.origin = "written") =>
        LET m == macro_commands(template, flags.include_output, flags.include_run_initialize)
        IN  /\ m.err = ""
            /\ file.exists
            /\ Len(file.lines) = Len(m.cmds)
            /\ \A i \in 1..Len(m.cmds) : file.lines[i] = m.cmds[i]

\* Written without the output lines and with the run-initialization line.
C25_Witness ==
    /\ pc = "written"
    /\ flags.origin = "written"
    /\ ~flags.include_output
    /\ flags.include_run_initialize
    /\ file.exists
    /\ PathOf(file.lines[1]) = "/scintillator/geom/material"
    /\ file.lines[Len(file.lines)] = Txt("/run/initialize")

RECURSIVE SixDigitStep(_)
\* The spacing of the numbers with six significant digits around x >= 0.
SixDigitStep(x) == IF x < 1000000 THEN 1 ELSE 10 * SixDigitStep(x \div 10)

\* v is x written with six significant digits.
Written(v, x) ==
    LET q == SixDigitStep(Abs(x))
    IN  v % q = 0 /\ 2 * Abs(v - x) <= q

EncodedTemplate == pc = "encoded" /\ commands.err = ""

\* C26: in the hierarchical encoder the apertureRadius line is emitted if and
\* only if the detector shape is circle, and its value is half the diameter
\* the diameter rule resolves; sizeX and sizeY both carry the entrance diameter
\* whatever the rule; posX/posY/posZ of the interface carry the configured
\* detector position (values in the general six-digit format).  For entrance
\* diameter 60.55, sensor max width 36.0, the min rule and detector Z 210.05
\* the lines are apertureRadius 18 mm, sizeX = sizeY = 60.55 mm, posZ 210.05 mm.
C26_HierarchicalGeometry ==
    EncodedTemplate =>
        LET cmds == commands.cmds
            optical == template.optical
            position == optical.sensitive_detector_config.position_mm
            entrance == optical.geometry.entrance_diameter
            rule == remove_spaces(RuleOf(template))
        IN  /\ HasPath(cmds, AperturePath) <=> IsCircle(template)
            /\ IsCircle(template) =>
                  Written(Carried(cmds, AperturePath), RuleValue(template, rule) \div 2)
            /\ Written(Carried(cmds, "/optical_interface/geom/sizeX"), entrance)
            /\ Written(Carried(cmds, "/optical_interface/geom/sizeY"), entrance)
            /\ Written(Carried(cmds, "/optical_interface/geom/posX"), position.x_mm)
            /\ Written(Carried(cmds, "/optical_interface/geom/posY"), position.y_mm)
            /\ Written(Carried(cmds, InterfacePosZ), position.z_mm)
            /\ (/\ IsCircle(template)
                /\ rule = RULE_MIN
                /\ entrance = L(6055, 100)
                /\ optical.geometry.sensor_max_width = L(36, 1)) =>
                  /\ Carried(cmds, AperturePath) = L(18, 1)
                  /\ Carried(cmds, "/optical_interface/geom/sizeX") = L(6055, 100)
                  /\ Carried(cmds, "/optical_interface/geom/sizeY") = L(6055, 100)
                  /\ Carried(cmds, InterfacePosZ) = L(21005, 100)

\* The literal scenario: 100x100x20 mm scintillator at the origin, entrance
\* diameter 60.55, sensor max width 36.0, min rule, circle, detector Z 210.05.
C26_Witness ==
    /\ EncodedTemplate
    /\ IsCircle(template)
    /\ RuleOf(template) = RULE_MIN
    /\ template.optical.geometry.entrance_diameter = L(6055, 100)
    /\ template.optical.geometry.sensor_max_width = L(36, 1)
    /\ template.optical.sensitive_detector_config.position_mm.z_mm = L(21005, 100)
    /\ \E i \in 1..Len(commands.cmds) :
          commands.cmds[i] = CmdLen(AperturePath, L(18, 1), "mm")
    /\ \E i \in 1..Len(commands.cmds) :
          commands.cmds[i] = CmdLen("/optical_interface/geom/sizeX", L(6055, 100), "mm")

\* The commands with path q.
LinesWith(cmds, q) == {i \in 1..Len(cmds) : PathOf(cmds[i]) = q}

\* C28 as stated: when the macro holds an apertureRadius command with radius
\* r, the commands encoded from the decoded configuration hold an
\* apertureRadius line with exactly the value r, for every template, with or
\* without sizeX/sizeY, the interface larger or smaller than 2r.
C28_RadiusReproduced ==
    (Reencoded /\ AperturePath \in CommandPaths(file.lines)) =>
        /\ commands.err = ""
        /\ Cardinality(LinesWith(commands.cmds, AperturePath)) = 1
        /\ Carried(commands.cmds, AperturePath) = Val(LastLengthMm(file.lines, AperturePath))

\* C28 amended: the encoded apertureRadius line carries r as the encoder
\* writes lengths, with six significant digits: r itself whenever r has no
\* more than six significant digits.
C28_Amended ==
    (Reencoded /\ AperturePath \in CommandPaths(file.lines)) =>
        LET r == Val(LastLengthMm(file.lines, AperturePath))
            v == Carried(commands.cmds, AperturePath)
        IN  /\ commands.err = ""
            /\ Cardinality(LinesWith(commands.cmds, AperturePath)) = 1
            /\ Written(v, r)
            /\ r % SixDigitStep(r) = 0 => v = r

\* Radius 40 mm with an interface of 60.55 mm, smaller than 2r, decoded over
\* a template whose detector is not circular.
C28_Witness ==
    /\ Reencoded
    /\ ~IsCircle(template)
    /\ LastLengthMm(file.lines, AperturePath) = Some(L(40, 1))
    /\ LastLengthMm(file.lines, "/optical_interface/geom/sizeX") = Some(L(6055, 100))
    /\ RuleOf(Val(imported.config)) = RULE_SENSOR
    /\ \E i \in 1..Len(commands.cmds) :
          commands.cmds[i] = CmdLen(AperturePath, L(40, 1), "mm")

----------------------------------------------------------------------------
(* Claims about repeated and complete patching *)

\* C29: apply_geometry_to_macro is idempotent: applied a second time in a row
\* with the same configuration it leaves the file exactly as the first
\* application left it; no command is inserted again and no line moves.
C29_Idempotent ==
    pc = "repatched" =>
        /\ file = before
        /\ outcome.err = "" => outcome.missing = <<>>

\* The first application inserted the generated commands before the
\* /run/initialize line; the second changed nothing.
C29_Witness ==
    /\ pc = "repatched"
    /\ outcome.err = ""
    /\ file = before
    /\ \E i \in 1..Len(file.lines) :
          /\ file.lines[i] = <<SP, A("/run/initialize"), SP>>
          /\ i > Len(outcome.replacements)
          /\ PathOf(file.lines[i - 1]) = InterfacePosZ

\* The command paths a SimConfig generates geometry for.
GeometryPaths == ScintPaths \cup {AperturePath} \cup InterfacePaths

\* C30: after apply_geometry_to_macro the geometry commands present in the
\* file are exactly the generated geometry commands of the configuration; in
\* particular, with the aperture mask disabled, the patched file holds no
\* /scintillator/geom/apertureRadius line even if the original file had one.
C30_OnlyGenerated ==
    Patched =>
        LET gen == SimConfig_geometry_commands(flat, lens).cmds
        IN  /\ \A i \in 1..Len(file.lines) :
                  (IsCommand(file.lines[i]) /\ PathOf(strip(file.lines[i])) \in GeometryPaths)
                      => file.lines[i] \in Range(gen)
            /\ \A k \in 1..Len(gen) : gen[k] \in Range(file.lines)
            /\ ~flat.use_aperture_mask => AperturePath \notin CommandPaths(file.lines)

====
